---- MODULE Spec2Model ----
(***************************************************************************)
(* Evidence-grading and convergence-control engine of the Researcher       *)
(* knowledge base (src/researcher/core.py).                                *)
(*                                                                         *)
(* Numbers.  The code works on Python floats.  The model keeps them as     *)
(* integers in a fixed unit:                                               *)
(*   - evaluation confidences, deltas, min_confidence and                  *)
(*     marginal_gain_threshold are in hundredths (0.02 is 2);              *)
(*   - source credibilities are in hundredths (0.88 is 88);                *)
(*   - claim confidences and factscore are in thousandths, the unit of     *)
(*     the code's round(x, 3).                                             *)
(* Optional arguments (Python None) are sequences of length 0 or 1:        *)
(* <<>> is None and <<v>> is the value v.                                  *)
(***************************************************************************)
EXTENDS Integers, Sequences, FiniteSets, TLC

VARIABLES
    evaluations,    \* table evaluations: row id -> row (AUTOINCREMENT ids 1..n)
    sources,        \* table sources: row id -> row
    claims,         \* table claims: row id -> row
    claim_sources,  \* table claim_sources: set of rows, unique on (claim_id, source_id)
    ret,            \* the last public call and the value it returned
    calls,          \* the calls in progress: caller -> position and local variables
    entities,       \* table entities, in order of creation: row number -> row
    entity_links,   \* table links: set of rows, unique on (from_id, to_id, link_type)
    traces          \* table traces, in order of insertion

vars == <<evaluations, sources, claims, claim_sources, ret, calls, entities, entity_links,
         traces>>

evalVars == <<evaluations>>
claimVars == <<sources, claims, claim_sources>>
\* A call that runs to its end without another caller's step in between
\* leaves no call in progress.
callVars == <<calls>>
graphVars == <<entities, entity_links, traces>>

None == <<>>
Some(v) == <<v>>
IsNone(o) == Len(o) = 0
Val(o) == o[1]

Abs(x) == IF x < 0 THEN -x ELSE x

\* Python's s[-n:] for 0 <= n: the last n elements, all of s when n = 0 or n > len(s).
LastN(s, n) ==
    IF n = 0 \/ n >= Len(s) THEN s ELSE SubSeq(s, Len(s) - n + 1, Len(s))

(***************************************************************************)
(* Evaluation loop                                                         *)
(***************************************************************************)

default_criteria ==
    [min_confidence |-> 70, max_gaps |-> 2, max_contradictions |-> 0,
     marginal_gain_threshold |-> 2, marginal_gain_patience |-> 2]

\* dict.update: the keys of o override, the others keep their default.
DictUpdate(d, o) ==
    [k \in DOMAIN d \cup DOMAIN o |-> IF k \in DOMAIN o THEN o[k] ELSE d[k]]

\* The row add_evaluation inserts; the other columns take the schema's defaults.
NewEvaluation(parent_id, max_iterations, convergence_criteria) ==
    [parent_id |-> parent_id,
     iteration |-> 1,
     max_iterations |-> max_iterations,
     status |-> "evaluating",
     confidence |-> 0,
     gaps |-> <<>>,
     contradictions |-> <<>>,
     convergence_criteria |-> DictUpdate(default_criteria, convergence_criteria),
     confidence_history |-> <<>>,
     gap_thompson_params |-> <<>>]

add_evaluation(parent_id, max_iterations, convergence_criteria) ==
    /\ evaluations' = Append(evaluations,
            NewEvaluation(parent_id, max_iterations, convergence_criteria))
    /\ ret' = [op |-> "add_evaluation", val |-> Len(evaluations) + 1]
    /\ UNCHANGED claimVars
    /\ UNCHANGED callVars
    /\ UNCHANGED graphVars

get_evaluation(eval_id) ==
    IF eval_id \in DOMAIN evaluations THEN Some(evaluations[eval_id]) ELSE None

\* a / b rounded to the nearest integer (a >= 0, b > 0): the code's
\* round(x, k) on a value held in units of 10^-k.
RoundDiv(a, b) == (2 * a + b) \div (2 * b)

\* The entry update_evaluation appends for a new confidence value.
HistoryAppend(ev, confidence) ==
    LET history == ev.confidence_history
        prev == IF Len(history) > 0 THEN history[Len(history)].confidence ELSE 0
    IN Append(history, [iteration |-> ev.iteration,
                        confidence |-> confidence,
                        delta |-> confidence - prev])

prior == [alpha |-> 1, beta |-> 1, attempts |-> 0, total_gain |-> 0]

\* A plausible slip: a delta equal to the threshold counts as a failure.
ThompsonStepStrict(ev, thompson, topic, delta) ==
    LET p == IF topic \in DOMAIN thompson THEN thompson[topic] ELSE prior
        threshold == ev.convergence_criteria.marginal_gain_threshold
        q == [p EXCEPT !.attempts = @ + 1, !.total_gain = @ + delta]
        r == IF delta > threshold
             THEN [q EXCEPT !.alpha = @ + 1]
             ELSE [q EXCEPT !.beta = @ + 1]
    IN [t \in DOMAIN thompson \cup {topic} |-> IF t = topic THEN r ELSE thompson[t]]

\* gap_thompson_params is a dict topic -> params; the model keeps it as a
\* function on the tracked topics (<<>> is the empty dict).
ThompsonStep(ev, thompson, topic, delta) ==
    LET p == IF topic \in DOMAIN thompson THEN thompson[topic] ELSE prior
        threshold == ev.convergence_criteria.marginal_gain_threshold
        q == [p EXCEPT !.attempts = @ + 1, !.total_gain = @ + delta]
        r == IF delta >= threshold
             THEN [q EXCEPT !.alpha = @ + 1]
             ELSE [q EXCEPT !.beta = @ + 1]
    IN [t \in DOMAIN thompson \cup {topic} |-> IF t = topic THEN r ELSE thompson[t]]

\* gap_results is a dict topic -> delta, a function in the model; the topics
\* are distinct keys, so the order of the loop does not matter.
RECURSIVE ThompsonUpdate(_, _, _, _)
ThompsonUpdate(ev, thompson, gap_results, todo) ==
    IF todo = {} THEN thompson
    ELSE LET topic == CHOOSE t \in todo : TRUE
         IN ThompsonUpdate(ev, ThompsonStep(ev, thompson, topic, gap_results[topic]),
                           gap_results, todo \ {topic})

\* A plausible slip: a call without an iteration argument moves the
\* evaluation to its next iteration.
SetIterationAdvancing(e, iteration) ==
    IF IsNone(iteration) THEN [e EXCEPT !.iteration = @ + 1]
    ELSE [e EXCEPT !.iteration = Val(iteration)]

\* The iteration column is written only when the argument is given.
SetIteration(e, iteration) ==
    IF IsNone(iteration) THEN e ELSE [e EXCEPT !.iteration = Val(iteration)]

update_evaluation(eval_id, confidence, gaps, contradictions, status, iteration, gap_results) ==
    /\ IF eval_id \in DOMAIN evaluations
       THEN LET ev == evaluations[eval_id]
                e1 == IF IsNone(confidence) THEN ev
                      ELSE [ev EXCEPT !.confidence = Val(confidence),
                                      !.confidence_history =
                                          HistoryAppend(ev, Val(confidence))]
                e2 == IF IsNone(gaps) THEN e1 ELSE [e1 EXCEPT !.gaps = Val(gaps)]
                e3 == IF IsNone(contradictions) THEN e2
                      ELSE [e2 EXCEPT !.contradictions = Val(contradictions)]
                e4 == IF IsNone(status) THEN e3 ELSE [e3 EXCEPT !.status = Val(status)]
                e5 == SetIteration(e4, iteration)
                e6 == IF IsNone(gap_results) THEN e5
                      ELSE [e5 EXCEPT !.gap_thompson_params =
                                ThompsonUpdate(ev, ev.gap_thompson_params,
                                               Val(gap_results),
                                               DOMAIN Val(gap_results))]
            IN evaluations' = [evaluations EXCEPT ![eval_id] = e6]
       ELSE UNCHANGED evaluations
    /\ ret' = [op |-> "update_evaluation", eval_id |-> eval_id,
               gap_results |-> gap_results]
    /\ UNCHANGED claimVars
    /\ UNCHANGED callVars
    /\ UNCHANGED graphVars

\* The sub-criteria check_convergence reports as failed, in the code's order.
FailedReasons(confidence_ok, gaps_ok, contradictions_ok) ==
    (IF confidence_ok THEN <<>> ELSE <<"confidence">>)
    \o (IF gaps_ok THEN <<>> ELSE <<"gaps">>)
    \o (IF contradictions_ok THEN <<>> ELSE <<"contradictions">>)

\* A plausible slip: a strict comparison lets the last allowed iteration run on.
HardStopStrict(ev) == ev.iteration > ev.max_iterations

\* check_convergence's hard stop.
HardStop(ev) == ev.iteration >= ev.max_iterations

\* A plausible slip: the plateau test looks at the last delta only.
MarginalGainStopLastOnly(ev) ==
    LET history == ev.confidence_history
    IN /\ Len(history) >= ev.convergence_criteria.marginal_gain_patience
       /\ Len(history) > 0
       /\ Abs(history[Len(history)].delta)
              < ev.convergence_criteria.marginal_gain_threshold

\* check_convergence's marginal_gain_stop flag.
MarginalGainStop(ev) ==
    LET mg_threshold == ev.convergence_criteria.marginal_gain_threshold
        mg_patience == ev.convergence_criteria.marginal_gain_patience
        history == ev.confidence_history
        recent_deltas == LastN(history, mg_patience)
    IN /\ Len(history) >= mg_patience
       /\ \A i \in DOMAIN recent_deltas : Abs(recent_deltas[i].delta) < mg_threshold

\* A plausible slip: the contradictions are left out of the conjunction.
StandardCriteriaNoContradictions(ev) ==
    [gaps_ok |-> Len(ev.gaps) <= ev.convergence_criteria.max_gaps,
     contradictions_ok |-> TRUE,
     confidence_ok |-> ev.confidence >= ev.convergence_criteria.min_confidence]

\* check_convergence's three standard sub-criteria.
StandardCriteria(ev) ==
    [gaps_ok |-> Len(ev.gaps) <= ev.convergence_criteria.max_gaps,
     contradictions_ok |->
         Len(ev.contradictions) <= ev.convergence_criteria.max_contradictions,
     confidence_ok |-> ev.confidence >= ev.convergence_criteria.min_confidence]

\* The verdict check_convergence returns for a stored row ev.  The reason
\* strings are kept as tags: the plateau reason carries its recent deltas, a
\* failing verdict the sub-criteria that failed.
Verdict(ev) ==
    LET ok == StandardCriteria(ev)
        converged == ok.gaps_ok /\ ok.contradictions_ok /\ ok.confidence_ok
        history == ev.confidence_history
        recent == LastN(history, ev.convergence_criteria.marginal_gain_patience)
    IN IF HardStop(ev)
       THEN [converged |-> TRUE, reason |-> "max_iterations_reached", forced |-> TRUE]
       ELSE IF MarginalGainStop(ev) /\ ~converged
       THEN [converged |-> TRUE,
             reason |-> "marginal_gain_plateau",
             recent_deltas |-> [i \in DOMAIN recent |-> recent[i].delta],
             forced |-> TRUE,
             marginal_gain_stop |-> TRUE,
             confidence |-> ev.confidence,
             gaps |-> ev.gaps,
             contradictions |-> ev.contradictions,
             iteration |-> ev.iteration,
             max_iterations |-> ev.max_iterations,
             confidence_history |-> history]
       ELSE [converged |-> converged,
             reason |-> IF converged THEN "all criteria met" ELSE "criteria failed",
             failed |-> FailedReasons(ok.confidence_ok, ok.gaps_ok,
                                      ok.contradictions_ok),
             confidence |-> ev.confidence,
             gaps |-> ev.gaps,
             contradictions |-> ev.contradictions,
             iteration |-> ev.iteration,
             max_iterations |-> ev.max_iterations,
             confidence_history |-> history,
             marginal_gain_stop |-> FALSE]

\* A plausible slip: a verdict of converged is also stored as the status.
check_convergence_marks(eval_id) ==
    /\ ret' = [op |-> "check_convergence",
               eval_id |-> eval_id,
               val |-> IF eval_id \in DOMAIN evaluations
                       THEN Verdict(evaluations[eval_id])
                       ELSE [converged |-> FALSE, reason |-> "evaluation not found"]]
    /\ evaluations' = IF eval_id \in DOMAIN evaluations
                          /\ Verdict(evaluations[eval_id]).converged
                       THEN [evaluations EXCEPT ![eval_id].status = "converged"]
                       ELSE evaluations
    /\ UNCHANGED claimVars
    /\ UNCHANGED callVars
    /\ UNCHANGED graphVars

check_convergence(eval_id) ==
    /\ ret' = [op |-> "check_convergence",
               eval_id |-> eval_id,
               val |-> IF eval_id \in DOMAIN evaluations
                       THEN Verdict(evaluations[eval_id])
                       ELSE [converged |-> FALSE, reason |-> "evaluation not found"]]
    /\ UNCHANGED evaluations
    /\ UNCHANGED claimVars
    /\ UNCHANGED callVars
    /\ UNCHANGED graphVars

\* A plausible slip: registration resets the topics it is given.
RegisterOverwrite(thompson, topics) ==
    [t \in DOMAIN thompson \cup {topics[i] : i \in DOMAIN topics} |->
        IF \E i \in DOMAIN topics : topics[i] = t THEN prior ELSE thompson[t]]

\* register_gap_topics' loop: a prior for every topic that is not tracked.
Register(thompson, topics) ==
    [t \in DOMAIN thompson \cup {topics[i] : i \in DOMAIN topics} |->
        IF t \in DOMAIN thompson THEN thompson[t] ELSE prior]

\* A plausible slip: the existence test is missing and the UPDATE is an
\* INSERT OR REPLACE, so an unknown id gets a row.
register_gap_topics_upsert(eval_id, topics) ==
    /\ IF eval_id \in DOMAIN evaluations
       THEN evaluations' =
                [evaluations EXCEPT ![eval_id].gap_thompson_params = Register(@, topics)]
       ELSE evaluations' = Append(evaluations,
                [NewEvaluation("", 5, <<>>) EXCEPT
                    !.gap_thompson_params = Register(<<>>, topics)])
    /\ ret' = [op |-> "register_gap_topics", eval_id |-> eval_id]
    /\ UNCHANGED claimVars
    /\ UNCHANGED callVars
    /\ UNCHANGED graphVars

register_gap_topics(eval_id, topics) ==
    /\ IF eval_id \in DOMAIN evaluations
       THEN evaluations' =
                [evaluations EXCEPT ![eval_id].gap_thompson_params = Register(@, topics)]
       ELSE UNCHANGED evaluations
    /\ ret' = [op |-> "register_gap_topics", eval_id |-> eval_id]
    /\ UNCHANGED claimVars
    /\ UNCHANGED callVars
    /\ UNCHANGED graphVars

\* list.sort(key = thompson_score, reverse = True): descending and stable, an
\* entry goes behind the entries whose score is not smaller.
RECURSIVE InsertDesc(_, _)
InsertDesc(sorted, e) ==
    IF sorted = <<>> THEN <<e>>
    ELSE IF Head(sorted).thompson_score >= e.thompson_score
    THEN <<Head(sorted)>> \o InsertDesc(Tail(sorted), e)
    ELSE <<e>> \o sorted

RECURSIVE SortDesc(_)
SortDesc(entries) ==
    IF entries = <<>> THEN <<>>
    ELSE InsertDesc(SortDesc(SubSeq(entries, 1, Len(entries) - 1)),
                    entries[Len(entries)])

\* A set of topics as a list, in some fixed order.
RECURSIVE TopicSeq(_)
TopicSeq(S) ==
    IF S = {} THEN <<>>
    ELSE LET t == CHOOSE x \in S : TRUE IN <<t>> \o TopicSeq(S \ {t})

\* A plausible slip: the stale topics are candidates as well.
CandidatesTracked(ev) ==
    ev.gaps \o TopicSeq(DOMAIN ev.gap_thompson_params
                            \ {ev.gaps[i] : i \in DOMAIN ev.gaps})

\* The topics select_next_gaps scores: the gaps list, in order.
Candidates(ev) == ev.gaps

\* scored_gaps[:n] for n >= 0.
FirstN(s, n) == SubSeq(s, 1, IF n < Len(s) THEN n ELSE Len(s))

\* select_next_gaps: draws[i] is the rounded Beta sample of the i-th candidate
\* (in ten-thousandths); expected_value is in ten-thousandths as well.  The
\* exploration bonus only moves the distribution of the draws.
ScoredGaps(ev, draws) ==
    [i \in DOMAIN Candidates(ev) |->
        LET topic == Candidates(ev)[i]
            params == IF topic \in DOMAIN ev.gap_thompson_params
                      THEN ev.gap_thompson_params[topic] ELSE prior
        IN [topic |-> topic,
            thompson_score |-> draws[i],
            alpha |-> params.alpha,
            beta |-> params.beta,
            attempts |-> params.attempts,
            total_gain |-> params.total_gain,
            expected_value |-> RoundDiv(10000 * params.alpha,
                                        params.alpha + params.beta)]]

select_next_gaps(eval_id, n, draws) ==
    /\ ret' = [op |-> "select_next_gaps", eval_id |-> eval_id, n |-> n,
               val |-> IF eval_id \notin DOMAIN evaluations THEN <<>>
                       ELSE FirstN(SortDesc(ScoredGaps(evaluations[eval_id], draws)), n)]
    /\ UNCHANGED evalVars
    /\ UNCHANGED claimVars
    /\ UNCHANGED callVars
    /\ UNCHANGED graphVars

(***************************************************************************)
(* Sources and credibility                                                 *)
(***************************************************************************)

\* A URL is kept as what urlparse makes of it: parses is FALSE for a string
\* urlparse raises on (an unclosed IPv6 bracket), and host is the list of the
\* labels of netloc.lower() with "www." removed: <<"arxiv", "org">> is
\* https://www.arxiv.org/abs/1.  The table is the part of DOMAIN_CREDIBILITY
\* the modelled URLs can match.
DOMAIN_CREDIBILITY ==
    (<<"nature", "com">> :> 95) @@ (<<"arxiv", "org">> :> 88) @@
    (<<"nih", "gov">> :> 92) @@ (<<"economist", "com">> :> 80) @@
    (<<"bbc", "com">> :> 78) @@ (<<"reddit", "com">> :> 35) @@
    (<<"gov">> :> 85) @@ (<<"edu">> :> 82)

IsSuffix(k, d) ==
    Len(k) < Len(d) /\ SubSeq(d, Len(d) - Len(k) + 1, Len(d)) = k

\* _score_domain: 0.4 when urlparse raises, else the exact match, then the
\* top-level domain, then a known domain as a dotted suffix, then 0.5.
_score_domain(url) ==
    LET domain == url.host
    IN IF ~url.parses THEN 40
       ELSE IF domain \in DOMAIN DOMAIN_CREDIBILITY THEN DOMAIN_CREDIBILITY[domain]
       ELSE IF Len(domain) > 0 /\ <<domain[Len(domain)]>> \in DOMAIN DOMAIN_CREDIBILITY
       THEN DOMAIN_CREDIBILITY[<<domain[Len(domain)]>>]
       ELSE IF \E k \in DOMAIN DOMAIN_CREDIBILITY : IsSuffix(k, domain)
       THEN DOMAIN_CREDIBILITY[CHOOSE k \in DOMAIN DOMAIN_CREDIBILITY :
                                   IsSuffix(k, domain)]
       ELSE 50

\* The row add_source inserts: the credibility is scored from the URL.
SourceRow(url, title, snippet, now) ==
    [url |-> url, title |-> title, snippet |-> snippet,
     credibility |-> _score_domain(url), accessed_at |-> now]

\* A plausible slip: sources has no UNIQUE(url), so no INSERT ever raises.
RegisteredNever(src, url) == FALSE

\* UNIQUE(url): the INSERT of a URL that has a row raises IntegrityError.
Registered(src, url) == \E i \in DOMAIN src : src[i].url = url

SourceIdOf(url) == CHOOSE i \in DOMAIN sources : sources[i].url = url

\* add_source: a new URL gets a row with its credibility scored once; a URL
\* that is already registered returns the existing id, and a non-empty title
\* overwrites title, snippet and accessed_at of the existing row.
add_source(url, title, snippet, now) ==
    /\ IF Registered(sources, url)
       THEN /\ sources' = IF title # ""
                          THEN [sources EXCEPT ![SourceIdOf(url)] =
                                   [@ EXCEPT !.title = title, !.snippet = snippet,
                                             !.accessed_at = now]]
                          ELSE sources
            /\ ret' = [op |-> "add_source", url |-> url, val |-> SourceIdOf(url)]
       ELSE /\ sources' = Append(sources, SourceRow(url, title, snippet, now))
            /\ ret' = [op |-> "add_source", url |-> url, val |-> Len(sources) + 1]
    /\ UNCHANGED <<claims, claim_sources>>
    /\ UNCHANGED evalVars
    /\ UNCHANGED callVars
    /\ UNCHANGED graphVars

(***************************************************************************)
(* Claim grading                                                           *)
(***************************************************************************)

Min(a, b) == IF a < b THEN a ELSE b

RECURSIVE SumOver(_, _)
SumOver(S, f) ==
    IF S = {} THEN 0
    ELSE LET x == CHOOSE y \in S : TRUE IN f[x] + SumOver(S \ {x}, f)

\* The rows of claim_sources joined with sources for one claim.
LinksOf(cs, claim_id) == {l \in cs : l.claim_id = claim_id}

\* A plausible slip: 'strong' is granted from two supporting sources on.
BaseGradeTwoForStrong(supporting, n_contradict) ==
    LET n_support == Cardinality(DOMAIN supporting)
        total == SumOver(DOMAIN supporting, supporting)
    IN IF n_contradict > 0 /\ n_support > 0
       THEN [grade |-> "contested",
             confidence |-> 200 + RoundDiv(300 * n_support, n_support + n_contradict)]
       ELSE IF n_support = 0
       THEN [grade |-> "ungraded", confidence |-> 300]
       ELSE IF n_support >= 2 /\ total >= 70 * n_support
       THEN [grade |-> "strong",
             confidence |-> Min(950, RoundDiv((700 + 50 * n_support) * n_support + total,
                                             n_support))]
       ELSE IF n_support >= 2 /\ total >= 50 * n_support
       THEN [grade |-> "moderate",
             confidence |-> RoundDiv((500 + 50 * n_support) * n_support + total,
                                     n_support)]
       ELSE [grade |-> "weak",
             confidence |-> RoundDiv(600 * n_support + 3 * total, 2 * n_support)]

\* _grade_claim's decision on the supporting credibilities (a function from
\* the supporting links to credibility) and the number of contradicting links.
BaseGrade(supporting, n_contradict) ==
    LET n_support == Cardinality(DOMAIN supporting)
        total == SumOver(DOMAIN supporting, supporting)
    IN IF n_contradict > 0 /\ n_support > 0
       THEN [grade |-> "contested",
             confidence |-> 200 + RoundDiv(300 * n_support, n_support + n_contradict)]
       ELSE IF n_support = 0
       THEN [grade |-> "ungraded", confidence |-> 300]
       ELSE IF n_support >= 3 /\ total >= 70 * n_support
       THEN [grade |-> "strong",
             confidence |-> Min(950, RoundDiv((700 + 50 * n_support) * n_support + total,
                                             n_support))]
       ELSE IF n_support >= 2 /\ total >= 50 * n_support
       THEN [grade |-> "moderate",
             confidence |-> RoundDiv((500 + 50 * n_support) * n_support + total,
                                     n_support)]
       ELSE [grade |-> "weak",
             confidence |-> RoundDiv(600 * n_support + 3 * total, 2 * n_support)]

AtomicChildren(cl, claim_id) ==
    {i \in DOMAIN cl : cl[i].parent_claim_id = claim_id /\ cl[i].is_atomic = 1}

\* A plausible slip: only 'strong' children count as supported.
RollupStrongOnly(cl, children) ==
    LET total == Cardinality(children)
        supported == Cardinality({i \in children : cl[i].evidence_grade = "strong"})
        conf_sum == SumOver(children, [i \in children |-> cl[i].confidence])
    IN [grade |-> IF 10 * supported >= 9 * total THEN "strong"
                  ELSE IF 10 * supported >= 6 * total THEN "moderate"
                  ELSE IF 10 * supported >= 3 * total THEN "weak"
                  ELSE "contested",
        confidence |-> RoundDiv(6000 * supported + 4 * conf_sum, 10 * total),
        factscore |-> RoundDiv(1000 * supported, total),
        atomic_count |-> total,
        supported_count |-> supported]

\* _grade_composite_claim's computation on a non-empty set of children.
Rollup(cl, children) ==
    LET total == Cardinality(children)
        supported == Cardinality({i \in children :
                         cl[i].evidence_grade \in {"strong", "moderate"}})
        conf_sum == SumOver(children, [i \in children |-> cl[i].confidence])
    IN [grade |-> IF 10 * supported >= 9 * total THEN "strong"
                  ELSE IF 10 * supported >= 6 * total THEN "moderate"
                  ELSE IF 10 * supported >= 3 * total THEN "weak"
                  ELSE "contested",
        confidence |-> RoundDiv(6000 * supported + 4 * conf_sum, 10 * total),
        factscore |-> RoundDiv(1000 * supported, total),
        atomic_count |-> total,
        supported_count |-> supported]

\* _grade_composite_claim: the claims table after the rollup of claim_id.
_grade_composite_claim(cl, claim_id) ==
    LET children == AtomicChildren(cl, claim_id)
    IN IF children = {} \/ claim_id \notin DOMAIN cl THEN cl
       ELSE LET r == Rollup(cl, children)
            IN [cl EXCEPT ![claim_id] =
                   [@ EXCEPT !.evidence_grade = r.grade,
                             !.confidence = r.confidence,
                             !.metadata = DictUpdate(@,
                                 [factscore |-> r.factscore,
                                  atomic_count |-> r.atomic_count,
                                  supported_count |-> r.supported_count])]]

\* A plausible slip: the grade is written and the parent is not re-graded.
GradeClaimNoCascade(cl, cs, src, claim_id) ==
    LET links == LinksOf(cs, claim_id)
        sup == {l \in links : l.relationship \in {"supports", "confirms"}}
        con == {l \in links : l.relationship \in {"contradicts", "refutes"}}
        g == BaseGrade([l \in sup |-> src[l.source_id].credibility], Cardinality(con))
    IN IF claim_id \notin DOMAIN cl THEN cl
       ELSE [cl EXCEPT ![claim_id] = [@ EXCEPT !.evidence_grade = g.grade,
                                              !.confidence = g.confidence]]

\* A plausible slip: a claim is graded once, while it is still 'ungraded'.
GradeClaimOnce(cl, cs, src, claim_id) ==
    LET links == LinksOf(cs, claim_id)
        sup == {l \in links : l.relationship \in {"supports", "confirms"}}
        con == {l \in links : l.relationship \in {"contradicts", "refutes"}}
        g == BaseGrade([l \in sup |-> src[l.source_id].credibility], Cardinality(con))
    IN IF claim_id \notin DOMAIN cl THEN cl
       ELSE IF cl[claim_id].evidence_grade # "ungraded" THEN cl
       ELSE [cl EXCEPT ![claim_id] = [@ EXCEPT !.evidence_grade = g.grade,
                                              !.confidence = g.confidence]]

\* _grade_claim: the claims table after claim_id is graded from its links (cs)
\* and, when it has a parent, the parent is rolled up.
_grade_claim(cl, cs, src, claim_id) ==
    LET links == LinksOf(cs, claim_id)
        sup == {l \in links : l.relationship \in {"supports", "confirms"}}
        con == {l \in links : l.relationship \in {"contradicts", "refutes"}}
        g == BaseGrade([l \in sup |-> src[l.source_id].credibility], Cardinality(con))
    IN IF claim_id \notin DOMAIN cl THEN cl
       ELSE LET graded == [cl EXCEPT ![claim_id] =
                              [@ EXCEPT !.evidence_grade = g.grade,
                                        !.confidence = g.confidence]]
            IN IF cl[claim_id].parent_claim_id # 0
               THEN _grade_composite_claim(graded, cl[claim_id].parent_claim_id)
               ELSE graded

(***************************************************************************)
(* Claims and decomposition                                                *)
(***************************************************************************)

\* A claim text is a list of tokens.  "w" is a lowercase word, "W" a
\* capitalised word, "N" a number with a unit ("30%"), "and" and "also" are
\* conjunction markers, "which" and "that" relative-clause markers; ";" and "."
\* are punctuation attached to the word before them, "." ending a sentence.
Conjunctions == {"and", "also", "additionally", "furthermore", "moreover"}
RelativeMarkers == {"which", "that", "where", "when", "while", "whereas"}
Punctuation == {";", "."}

Count(text, S) == Cardinality({i \in DOMAIN text : text[i] \in S})

WordCount(text) == Count(text, {"w", "W", "N"} \cup Conjunctions \cup RelativeMarkers)

\* [.!?]+\s : a sentence end that is followed by more text.
SentenceBreaks(text) ==
    Cardinality({i \in DOMAIN text : text[i] = "." /\ i < Len(text)})

Max0(x) == IF x < 0 THEN 0 ELSE x

\* _claim_complexity's score in fortieths (1.5 is 60): the weights 1.0, 1.5,
\* 0.8, 1.2, 0.7 and 0.5 per 20 words over 25.
ComplexityScore(text) ==
    40 * Count(text, Conjunctions) + 60 * Count(text, {";"})
    + 32 * Count(text, RelativeMarkers) + 48 * SentenceBreaks(text)
    + 28 * Max0(Count(text, {"N"}) - 1) + Max0(WordCount(text) - 25)

\* A plausible slip: the threshold is met at 1.5 already.
NeedsDecompositionAtThreshold(text) == ComplexityScore(text) >= 60

needs_decomposition(text) == ComplexityScore(text) > 60

\* rstrip('.') on a fragment.
RECURSIVE RStripDot(_)
RStripDot(t) ==
    IF Len(t) > 0 /\ t[Len(t)] = "." THEN RStripDot(SubSeq(t, 1, Len(t) - 1)) ELSE t

\* re.split at the positions in cuts (each cut token is dropped).
RECURSIVE SplitAt(_, _, _)
SplitAt(t, cuts, from) ==
    IF \E i \in cuts : i >= from
    THEN LET i == CHOOSE j \in cuts : j >= from /\ \A k \in cuts : k >= from => j <= k
         IN <<SubSeq(t, from, i - 1)>> \o SplitAt(t, cuts, i + 1)
    ELSE <<SubSeq(t, from, Len(t))>>

\* ,?\s+and\s+(?=[A-Z]) : an "and" inside the segment that a capitalised word
\* follows.
AndCuts(seg) ==
    {i \in DOMAIN seg : seg[i] = "and" /\ i > 1 /\ i < Len(seg) /\ seg[i + 1] = "W"}

\* The parts one semicolon segment contributes.
SegmentParts(seg0) ==
    LET seg == RStripDot(seg0)
        and_parts == SplitAt(seg, AndCuts(seg), 1)
    IN IF seg = <<>> THEN <<>>
       ELSE IF Len(and_parts) > 1
       THEN LET kept == SelectSeq(and_parts, LAMBDA q : q # <<>>)
            IN [i \in DOMAIN kept |-> RStripDot(kept[i])]
       ELSE <<seg>>

RECURSIVE Flatten(_)
Flatten(ss) == IF ss = <<>> THEN <<>> ELSE Head(ss) \o Flatten(Tail(ss))

\* _heuristic_decompose: the fragments of at least three words.
_heuristic_decompose(text) ==
    LET segments == SplitAt(text, {i \in DOMAIN text : text[i] = ";"}, 1)
        parts == Flatten([i \in DOMAIN segments |-> SegmentParts(segments[i])])
    IN SelectSeq(parts, LAMBDA q : WordCount(q) >= 3)

\* The columns an inserted claims row takes from the table's defaults.
claim_defaults ==
    [evidence_grade |-> "ungraded", confidence |-> 500, claim_type |-> "singleton",
     parent_claim_id |-> 0, is_atomic |-> 0]

NewClaim(claim_text, entity_id, metadata) ==
    [claim_text |-> claim_text, entity_id |-> entity_id, metadata |-> metadata]
    @@ claim_defaults

\* INSERT into claim_sources: a row whose (claim_id, source_id) exists, or
\* whose claim or source does not, raises IntegrityError.
CanLink(cl, cs, src, claim_id, source_id) ==
    /\ claim_id \in DOMAIN cl
    /\ source_id \in DOMAIN src
    /\ ~\E l \in cs : l.claim_id = claim_id /\ l.source_id = source_id

Link(claim_id, source_id, relationship) ==
    [claim_id |-> claim_id, source_id |-> source_id, relationship |-> relationship]

\* The links add_claim and decompose_claim insert one by one, skipping the
\* rows that raise.
RECURSIVE LinkAll(_, _, _, _, _)
LinkAll(cl, cs, src, claim_id, todo) ==
    IF todo = <<>> THEN cs
    ELSE LET l == Head(todo)
         IN LinkAll(cl,
                    IF CanLink(cl, cs, src, claim_id, l.source_id)
                    THEN cs \cup {Link(claim_id, l.source_id, l.relationship)}
                    ELSE cs,
                    src, claim_id, Tail(todo))

add_claim(claim_text, entity_id, source_ids) ==
    LET claim_id == Len(claims) + 1
        inserted == Append(claims, NewClaim(claim_text, entity_id, <<>>))
        linked == LinkAll(inserted, claim_sources, sources, claim_id,
                          [i \in DOMAIN source_ids |->
                              [source_id |-> source_ids[i], relationship |-> "supports"]])
    IN /\ claim_sources' = linked
       /\ claims' = _grade_claim(inserted, linked, sources, claim_id)
       /\ ret' = [op |-> "add_claim", val |-> claim_id]
       /\ UNCHANGED sources
       /\ UNCHANGED evalVars
       /\ UNCHANGED callVars
       /\ UNCHANGED graphVars

add_claim_source(claim_id, source_id, relationship) ==
    /\ IF CanLink(claims, claim_sources, sources, claim_id, source_id)
       THEN LET linked == claim_sources \cup {Link(claim_id, source_id, relationship)}
            IN /\ claim_sources' = linked
               /\ claims' = _grade_claim(claims, linked, sources, claim_id)
               /\ ret' = [op |-> "add_claim_source", val |-> TRUE]
       ELSE /\ UNCHANGED <<claims, claim_sources>>
            /\ ret' = [op |-> "add_claim_source", val |-> FALSE]
    /\ UNCHANGED sources
    /\ UNCHANGED evalVars
    /\ UNCHANGED callVars
    /\ UNCHANGED graphVars

\* The rows decompose_claim inserts for the parts, in order.
AtomicRows(parent, claim_id, parts) ==
    [i \in DOMAIN parts |->
        [claim_text |-> parts[i],
         entity_id |-> parent.entity_id,
         metadata |-> [decomposed_from |-> claim_id],
         evidence_grade |-> claim_defaults.evidence_grade,
         confidence |-> claim_defaults.confidence,
         claim_type |-> "atomic",
         parent_claim_id |-> claim_id,
         is_atomic |-> 1]]

\* The rows of a SELECT on claim_sources, as a list (by source id).
RECURSIVE SetToSeq(_)
SetToSeq(S) ==
    IF S = {} THEN <<>>
    ELSE LET m == CHOOSE l \in S : \A k \in S : l.source_id <= k.source_id
         IN <<m>> \o SetToSeq(S \ {m})

\* A plausible slip: the copy omits the relationship column, as add_claim's
\* INSERT does, so every copied link gets the column default 'supports'.
RECURSIVE CopyLinksAsSupports(_, _, _, _, _)
CopyLinksAsSupports(cl, cs, src, ids, parent_links) ==
    IF ids = <<>> THEN cs
    ELSE CopyLinksAsSupports(cl,
             LinkAll(cl, cs, src, Head(ids),
                     [i \in DOMAIN parent_links |->
                         [source_id |-> parent_links[i].source_id,
                          relationship |-> "supports"]]),
             src, Tail(ids), parent_links)

\* The copy of the parent's links to each new atomic child.
RECURSIVE CopyLinks(_, _, _, _, _)
CopyLinks(cl, cs, src, ids, parent_links) ==
    IF ids = <<>> THEN cs
    ELSE CopyLinks(cl, LinkAll(cl, cs, src, Head(ids), parent_links), src,
                   Tail(ids), parent_links)

RECURSIVE GradeAll(_, _, _, _)
GradeAll(cl, cs, src, ids) ==
    IF ids = <<>> THEN cl
    ELSE GradeAll(_grade_claim(cl, cs, src, Head(ids)), cs, src, Tail(ids))

\* A plausible slip: method 'none' is not tested and splits like 'heuristic'.
DecomposeOutcomeIgnoresNone(text, method) ==
    IF ~needs_decomposition(text) THEN "singleton"
    ELSE IF Len(_heuristic_decompose(text)) <= 1 THEN "singleton"
    ELSE "split"

\* What decompose_claim does to a claim that exists and has no atomic
\* children: "singleton" (no parts are made) or "split".
DecomposeOutcome(text, method) ==
    IF method = "none" THEN "singleton"
    ELSE IF ~needs_decomposition(text) THEN "singleton"
    ELSE IF Len(_heuristic_decompose(text)) <= 1 THEN "singleton"
    ELSE "split"

\* A plausible slip: the idempotency check is missing.
ExistingAtomsNone(cl, claim_id) == {}

\* decompose_claim's idempotency query.
ExistingAtoms(cl, claim_id) == AtomicChildren(cl, claim_id)

\* The ids of a SELECT on claims, as a list (by rowid).
RECURSIVE IdSeq(_)
IdSeq(S) ==
    IF S = {} THEN <<>>
    ELSE LET m == CHOOSE i \in S : \A k \in S : i <= k
         IN <<m>> \o IdSeq(S \ {m})

decompose_claim(claim_id, method) ==
    /\ IF claim_id \notin DOMAIN claims
       THEN /\ UNCHANGED <<claims, claim_sources>>
            /\ ret' = [op |-> "decompose_claim", claim_id |-> claim_id, method |-> method, val |-> <<>>]
       ELSE IF ExistingAtoms(claims, claim_id) # {}
       THEN /\ UNCHANGED <<claims, claim_sources>>
            /\ ret' = [op |-> "decompose_claim", claim_id |-> claim_id, method |-> method,
                       val |-> IdSeq(ExistingAtoms(claims, claim_id))]
       ELSE IF DecomposeOutcome(claims[claim_id].claim_text, method) = "singleton"
       THEN /\ claims' = [claims EXCEPT ![claim_id].claim_type = "singleton"]
            /\ UNCHANGED claim_sources
            /\ ret' = [op |-> "decompose_claim", claim_id |-> claim_id, method |-> method, val |-> <<>>]
       ELSE LET parts == _heuristic_decompose(claims[claim_id].claim_text)
                marked == [claims EXCEPT ![claim_id].claim_type = "composite"]
                parent_sources == SetToSeq(LinksOf(claim_sources, claim_id))
                atomic_ids == [i \in DOMAIN parts |-> Len(claims) + i]
                inserted == marked \o AtomicRows(claims[claim_id], claim_id, parts)
                linked == CopyLinks(inserted, claim_sources, sources, atomic_ids,
                                    parent_sources)
                graded == GradeAll(inserted, linked, sources, atomic_ids)
            IN /\ claim_sources' = linked
               /\ claims' = _grade_composite_claim(graded, claim_id)
               /\ ret' = [op |-> "decompose_claim", claim_id |-> claim_id, method |-> method,
                          val |-> atomic_ids]
    /\ UNCHANGED sources
    /\ UNCHANGED evalVars
    /\ UNCHANGED callVars
    /\ UNCHANGED graphVars

\* _grade_composite_claim called on its own, as the graders call it.
grade_composite_claim(claim_id) ==
    /\ claims' = _grade_composite_claim(claims, claim_id)
    /\ ret' = [op |-> "_grade_composite_claim"]
    /\ UNCHANGED <<sources, claim_sources>>
    /\ UNCHANGED evalVars
    /\ UNCHANGED callVars
    /\ UNCHANGED graphVars

(***************************************************************************)
(* Self-consistency grading (kb_verify.grade_claim_sc).  Confidences and   *)
(* the perturbed average credibility are in thousandths; a draw holds the  *)
(* outcomes of random.gauss(0, 0.08), random.gauss(0, 0.06) (thousandths)  *)
(* and random.choice([-1, 0, 0, 0, 1]) of one sample.                      *)
(***************************************************************************)

\* max(0, min(1, x))
Clamp01(x) == IF x < 0 THEN 0 ELSE IF x > 1000 THEN 1000 ELSE x

\* max(1, x)
Max1(x) == IF x < 1 THEN 1 ELSE x

\* One pass of the sampling loop: the grade and the clamped confidence.
SampleGrade(supporting, n_con, draw) ==
    LET n_sup == Cardinality(DOMAIN supporting)
        total == SumOver(DOMAIN supporting, supporting)
    IN IF n_con > 0 /\ n_sup > 0
       THEN [grade |-> "contested",
             conf |-> Clamp01(200 + RoundDiv(300 * n_sup, n_sup + n_con) + draw.noise)]
       ELSE IF n_sup = 0
       THEN [grade |-> "ungraded", conf |-> Clamp01(300 + draw.noise)]
       ELSE LET avg_cred_p == Clamp01(RoundDiv(10 * total, n_sup) + draw.cred_noise)
                n_sup_eff == Max1(n_sup + draw.choice)
            IN IF n_sup_eff >= 3 /\ avg_cred_p >= 700
               THEN [grade |-> "strong",
                     conf |-> Clamp01(Min(950, 700 + 50 * n_sup_eff
                                               + RoundDiv(avg_cred_p, 10)))]
               ELSE IF n_sup_eff >= 2 /\ avg_cred_p >= 500
               THEN [grade |-> "moderate",
                     conf |-> Clamp01(500 + 50 * n_sup_eff + RoundDiv(avg_cred_p, 10))]
               ELSE [grade |-> "weak",
                     conf |-> Clamp01(300 + RoundDiv(15 * avg_cred_p, 100))]

\* Counter(grades)[g]
GradeCount(grades, g) == Cardinality({i \in DOMAIN grades : grades[i] = g})

\* The position at which g is inserted in the Counter: its first occurrence.
FirstSeen(grades, g) ==
    CHOOSE i \in DOMAIN grades : grades[i] = g /\ \A j \in 1..(i - 1) : grades[j] # g

\* The position at which the running count of g reaches m.
ReachIndex(grades, g, m) ==
    CHOOSE i \in DOMAIN grades :
        grades[i] = g /\ Cardinality({j \in 1..i : grades[j] = g}) = m

MaxGradeCount(grades) ==
    CHOOSE m \in 1..Len(grades) :
        /\ \E i \in DOMAIN grades : GradeCount(grades, grades[i]) = m
        /\ \A i \in DOMAIN grades : GradeCount(grades, grades[i]) <= m

\* A plausible slip: among the tied grades, the one whose count is complete
\* first wins.
MostCommonFirstToReach(grades) ==
    LET m == MaxGradeCount(grades)
        top == {grades[i] : i \in {j \in DOMAIN grades : GradeCount(grades, grades[j]) = m}}
    IN CHOOSE g \in top :
           \A h \in top : ReachIndex(grades, g, m) <= ReachIndex(grades, h, m)

\* Counter(grades).most_common(1)[0][0]: the maximum of the counts, and of
\* the grades that have it the one the Counter holds first.
MostCommon(grades) ==
    LET m == MaxGradeCount(grades)
        top == {grades[i] : i \in {j \in DOMAIN grades : GradeCount(grades, grades[j]) = m}}
    IN CHOOSE g \in top : \A h \in top : FirstSeen(grades, g) <= FirstSeen(grades, h)

\* A plausible slip: the weight of the agreement is 0.4 instead of 0.2.
FinalConfidenceBoosted(sum, m, k, n) == RoundDiv(sum * (4 * n + 2 * k), 5 * n * m)

\* round(avg_confidence * (0.8 + 0.2 * agreement), 3) for the sum of the m
\* agreeing confidences and k of n samples agreeing.
FinalConfidence(sum, m, k, n) == RoundDiv(sum * (4 * n + k), 5 * n * m)

SeqMin(s) == CHOOSE x \in {s[i] : i \in DOMAIN s} : \A i \in DOMAIN s : x <= s[i]
SeqMax(s) == CHOOSE x \in {s[i] : i \in DOMAIN s} : \A i \in DOMAIN s : x >= s[i]

\* The majority vote over the samples and what is returned.
SCResult(samples, n_samples) ==
    LET grades == [i \in DOMAIN samples |-> samples[i].grade]
        confidences == [i \in DOMAIN samples |-> samples[i].conf]
        majority_grade == MostCommon(grades)
        k == GradeCount(grades, majority_grade)
        agreeing == {i \in DOMAIN samples : grades[i] = majority_grade}
        sum == SumOver(agreeing, confidences)
    IN [majority_grade |-> majority_grade,
        final_confidence |-> FinalConfidence(sum, Cardinality(agreeing), k, n_samples),
        agreement |-> RoundDiv(1000 * k, n_samples),
        grade_distribution |->
            [g \in {grades[i] : i \in DOMAIN grades} |-> GradeCount(grades, g)],
        n_samples |-> n_samples,
        confidence_range |-> <<SeqMin(confidences), SeqMax(confidences)>>]

\* grade_claim_sc; draws holds the random outcomes of the samples.  ret also
\* carries the sampled grades and confidences.  With n_samples <= 0 no sample
\* is drawn and most_common(1)[0] raises IndexError before anything is
\* written.
grade_claim_sc(claim_id, n_samples, draws) ==
    /\ IF claim_id \notin DOMAIN claims
       THEN /\ UNCHANGED claims
            /\ ret' = [op |-> "grade_claim_sc", claim_id |-> claim_id,
                       error |-> "claim not found"]
       ELSE IF n_samples <= 0
       THEN /\ UNCHANGED claims
            /\ ret' = [op |-> "grade_claim_sc", claim_id |-> claim_id,
                       raised |-> "IndexError"]
       ELSE LET links == LinksOf(claim_sources, claim_id)
                sup == {l \in links : l.relationship \in {"supports", "confirms"}}
                con == {l \in links : l.relationship \in {"contradicts", "refutes"}}
                supporting == [l \in sup |-> sources[l.source_id].credibility]
                samples == [i \in 1..n_samples |->
                               SampleGrade(supporting, Cardinality(con), draws[i])]
                r == SCResult(samples, n_samples)
                updated == [claims EXCEPT ![claim_id] =
                               [@ EXCEPT !.evidence_grade = r.majority_grade,
                                         !.confidence = r.final_confidence,
                                         !.metadata = DictUpdate(@,
                                             [self_consistency |->
                                                 [n_samples |-> r.n_samples,
                                                  grade_distribution |-> r.grade_distribution,
                                                  agreement |-> r.agreement,
                                                  confidence_range |-> r.confidence_range]])]]
            IN /\ claims' = IF claims[claim_id].parent_claim_id # 0
                            THEN _grade_composite_claim(updated,
                                     claims[claim_id].parent_claim_id)
                            ELSE updated
               /\ ret' = [op |-> "grade_claim_sc", claim_id |-> claim_id, val |-> r,
                          grades |-> [i \in 1..n_samples |-> samples[i].grade],
                          confidences |-> [i \in 1..n_samples |-> samples[i].conf]]
    /\ UNCHANGED <<sources, claim_sources>>
    /\ UNCHANGED evalVars
    /\ UNCHANGED callVars
    /\ UNCHANGED graphVars

(***************************************************************************)
(* Claim verification (kb_verify.verify_claim).  Scores are in             *)
(* thousandths.  search is None when no search function is given, and      *)
(* otherwise the list of results the function returns for an atom; a       *)
(* function that raises counts as one that returns no result.  The texts   *)
(* of the model all hold a word, so the full-text query is well formed.    *)
(***************************************************************************)

\* The sources table after add_source(url, title, snippet) at time now.
SourcesAfterAdd(src, url, title, snippet, now) ==
    IF Registered(src, url)
    THEN LET id == CHOOSE i \in DOMAIN src : src[i].url = url
         IN IF title # ""
            THEN [src EXCEPT ![id] = [@ EXCEPT !.title = title, !.snippet = snippet,
                                               !.accessed_at = now]]
            ELSE src
    ELSE Append(src, SourceRow(url, title, snippet, now))

\* A store: the three tables verify_claim writes.
Store(src, cl, cs) == [sources |-> src, claims |-> cl, claim_sources |-> cs]

\* The store after add_claim_source(claim_id, source_id, relationship).
StoreAfterLink(st, claim_id, source_id, relationship) ==
    IF CanLink(st.claims, st.claim_sources, st.sources, claim_id, source_id)
    THEN LET linked == st.claim_sources \cup {Link(claim_id, source_id, relationship)}
         IN Store(st.sources, _grade_claim(st.claims, linked, st.sources, claim_id),
                  linked)
    ELSE st

\* The external results of one atom: each is registered as a source and
\* linked to the atom as supporting.
RECURSIVE StoreAfterResults(_, _, _, _)
StoreAfterResults(st, atom_id, exts, now) ==
    IF exts = <<>> THEN st
    ELSE LET e == Head(exts)
             src == SourcesAfterAdd(st.sources, e.url, e.title, e.snippet, now)
             source_id == CHOOSE i \in DOMAIN src : src[i].url = e.url
         IN StoreAfterResults(
                StoreAfterLink(Store(src, st.claims, st.claim_sources),
                               atom_id, source_id, "supports"),
                atom_id, Tail(exts), now)

RECURSIVE StoreAfterAtoms(_, _, _, _)
StoreAfterAtoms(st, atom_ids, exts, now) ==
    IF atom_ids = <<>> THEN st
    ELSE StoreAfterAtoms(StoreAfterResults(st, Head(atom_ids), exts, now),
                         Tail(atom_ids), exts, now)

\* The tokens that are words of three letters or more, in lower case.
LongWords == {"w", "W"} \cup Conjunctions \cup RelativeMarkers
Lower(t) == IF t = "W" THEN "w" ELSE t

\* _fts_safe: the first eight such words of the text.
KeyTerms(text) ==
    LET words == SelectSeq(text, LAMBDA t : t \in LongWords)
    IN {Lower(words[i]) : i \in 1..Min(8, Len(words))}

\* The terms the full-text index holds for a text.
IndexTerms(text) == {Lower(text[i]) : i \in {j \in DOMAIN text : text[j] \notin Punctuation}}

\* The claims the full-text query finds for an atom: at most ten others that
\* hold one of its key terms.
KbHits(cl, atom_id) ==
    {i \in DOMAIN cl :
        i # atom_id /\ IndexTerms(cl[i].claim_text) \cap KeyTerms(cl[atom_id].claim_text) # {}}

\* The score and verdict of one atom.
AtomScore(n_kb, n_ext) ==
    IF n_kb + n_ext = 0 THEN [score |-> 300, verdict |-> "unverified"]
    ELSE IF n_ext >= 2
    THEN [score |-> Min(950, 600 + 100 * n_ext + 50 * n_kb),
          verdict |-> "externally_verified"]
    ELSE IF n_kb >= 2
    THEN [score |-> Min(850, 500 + 80 * n_kb), verdict |-> "kb_corroborated"]
    ELSE [score |-> 400 + 100 * (n_kb + n_ext), verdict |-> "weakly_supported"]

\* The verification record of a claim from the scores of its atoms.
Verification(cl, atom_ids, search) ==
    LET n_ext == IF IsNone(search) THEN 0 ELSE Len(Val(search))
        results == [i \in DOMAIN atom_ids |->
                       AtomScore(Min(10, Cardinality(KbHits(cl, atom_ids[i]))), n_ext)]
        idx == DOMAIN results
        sum == SumOver(idx, [i \in idx |-> results[i].score])
        min_score == SeqMin([i \in idx |-> results[i].score])
    IN [avg_score |-> RoundDiv(sum, Len(results)),
        min_score |-> min_score,
        verified_atoms |-> Cardinality({i \in idx : results[i].verdict \in
                               {"externally_verified", "kb_corroborated"}}),
        total_atoms |-> Len(results),
        method |-> IF IsNone(search) THEN "kb_only" ELSE "safe_search",
        factuality |-> RoundDiv(6 * sum + 4 * min_score * Len(results),
                                10 * Len(results))]

\* A plausible slip: the verification record replaces the metadata.
VerifiedMetadataOnly(meta, v) ==
    [verification |-> [avg_score |-> v.avg_score, min_score |-> v.min_score,
                       verified_atoms |-> v.verified_atoms,
                       total_atoms |-> v.total_atoms, method |-> v.method]]

\* meta['verification'] = {...} on the metadata read when the call began.
VerifiedMetadata(meta, v) ==
    DictUpdate(meta,
        [verification |-> [avg_score |-> v.avg_score, min_score |-> v.min_score,
                           verified_atoms |-> v.verified_atoms,
                           total_atoms |-> v.total_atoms, method |-> v.method]])

\* verify_claim: the atoms are the atomic children, or the claim itself.
\* The metadata written at the end is the one get_claim returned at the
\* start of the call, with the verification record added.
verify_claim(claim_id, search, now) ==
    /\ IF claim_id \notin DOMAIN claims
       THEN /\ UNCHANGED <<sources, claims, claim_sources>>
            /\ ret' = [op |-> "verify_claim", claim_id |-> claim_id,
                       error |-> "claim not found"]
       ELSE LET children == IdSeq(AtomicChildren(claims, claim_id))
                atom_ids == IF children = <<>> THEN <<claim_id>> ELSE children
                exts == IF IsNone(search) THEN <<>> ELSE Val(search)
                st == StoreAfterAtoms(Store(sources, claims, claim_sources),
                                      atom_ids, exts, now)
                v == Verification(claims, atom_ids, search)
            IN /\ sources' = st.sources
               /\ claim_sources' = st.claim_sources
               /\ claims' = [st.claims EXCEPT ![claim_id] =
                                [@ EXCEPT !.metadata =
                                              VerifiedMetadata(claims[claim_id].metadata, v),
                                          !.confidence = v.factuality]]
               /\ ret' = [op |-> "verify_claim", claim_id |-> claim_id, val |-> v]
    /\ UNCHANGED evalVars
    /\ UNCHANGED callVars
    /\ UNCHANGED graphVars

(***************************************************************************)
(* Specification of the evaluation loop: one evaluation row, driven by     *)
(* any sequence of update_evaluation and check_convergence calls.          *)
(***************************************************************************)

\* The history is capped: a call that would record one more confidence is
\* not taken once the history holds MaxHistory entries.
MaxHistory == 2

\* The inputs the callers choose from.
EvalIds == {1}
MaxIterationsChoices == {2, 3}
IterationChoices == {1, 2}
ConfidenceChoices == {1, 2, 70}
GapsChoices == {<<>>, <<"g1", "g2", "g3">>}
ContradictionsChoices == {<<>>, <<"x1">>}
StatusChoices == {"evaluating", "converged", "failed"}
CriteriaChoices ==
    {<<>>,
     [min_confidence |-> 1, max_gaps |-> 3, marginal_gain_patience |-> 1],
     [marginal_gain_patience |-> 0]}

Opt(S) == {None} \cup {Some(v) : v \in S}

Init ==
    /\ evaluations = <<>>
    /\ sources = <<>>
    /\ claims = <<>>
    /\ claim_sources = {}
    /\ ret = [op |-> "init"]
    /\ calls = <<>>
    /\ entities = <<>>
    /\ entity_links = {}
    /\ traces = <<>>

AddEvaluation ==
    \E m \in MaxIterationsChoices, c \in CriteriaChoices :
        /\ Len(evaluations) + 1 \in EvalIds
        /\ add_evaluation("e1", m, c)

UpdateEvaluation ==
    \E id \in EvalIds,
       confidence \in Opt(ConfidenceChoices),
       gaps \in Opt(GapsChoices),
       contradictions \in Opt(ContradictionsChoices),
       status \in Opt(StatusChoices),
       iteration \in Opt(IterationChoices) :
        /\ id \in DOMAIN evaluations /\ ~IsNone(confidence)
              => Len(evaluations[id].confidence_history) < MaxHistory
        /\ update_evaluation(id, confidence, gaps, contradictions, status,
                             iteration, None)

CheckConvergence ==
    \E id \in EvalIds : check_convergence(id)

NextEval == AddEvaluation \/ UpdateEvaluation \/ CheckConvergence

SpecEval == Init /\ [][NextEval]_vars

(***************************************************************************)
(* Claims about the evaluation loop                                        *)
(***************************************************************************)

\* check_convergence has just returned for a stored evaluation: ret holds its
\* verdict and the row it read is evaluations[ret.eval_id], unchanged.
Checked == ret.op = "check_convergence" /\ ret.eval_id \in DOMAIN evaluations

CheckedEv == evaluations[ret.eval_id]

Has(r, k) == k \in DOMAIN r

\* The claims' own reading of the stopping rules, on a stored row.
AtMaxIterations(ev) == ev.iteration >= ev.max_iterations

OnPlateau(ev) ==
    LET h == ev.confidence_history
        p == ev.convergence_criteria.marginal_gain_patience
    IN /\ Len(h) >= p
       /\ \A i \in (Len(h) - p + 1)..Len(h) :
              /\ h[i].delta < ev.convergence_criteria.marginal_gain_threshold
              /\ -h[i].delta < ev.convergence_criteria.marginal_gain_threshold

MeetsStandard(ev) ==
    /\ Len(ev.gaps) <= ev.convergence_criteria.max_gaps
    /\ Len(ev.contradictions) <= ev.convergence_criteria.max_contradictions
    /\ ev.confidence >= ev.convergence_criteria.min_confidence

\* C1: whenever check_convergence is called on an evaluation whose iteration
\* has reached max_iterations, it returns converged = true with reason
\* "max_iterations_reached" and forced = true, and does not report
\* marginal_gain_stop = true, whatever the rest of the row holds.
C1_HardStopWins ==
    Checked /\ AtMaxIterations(CheckedEv) =>
        /\ ret.val.converged
        /\ ret.val.reason = "max_iterations_reached"
        /\ Has(ret.val, "forced") /\ ret.val.forced
        /\ ~(Has(ret.val, "marginal_gain_stop") /\ ret.val.marginal_gain_stop)

\* C1 witness: the hard stop was reported on a row that is also on a plateau
\* and fails the standard criteria.
C1_Witness ==
    /\ Checked
    /\ AtMaxIterations(CheckedEv)
    /\ CheckedEv.convergence_criteria.marginal_gain_patience >= 1
    /\ OnPlateau(CheckedEv)
    /\ ~MeetsStandard(CheckedEv)
    /\ ret.val.reason = "max_iterations_reached"

\* C2 (as claimed): once the stored status is 'converged' or 'failed', no
\* later update_evaluation call changes it.
C2_StatusOneDirectional ==
    [][\A id \in DOMAIN evaluations :
          evaluations[id].status # "evaluating"
              => evaluations'[id].status = evaluations[id].status]_vars

\* The plateau as check_convergence reads it: the history has at least
\* patience entries and the last patience deltas (every recorded delta when
\* patience is 0) are below the threshold in absolute value.
RecentPlateau(ev) ==
    LET h == ev.confidence_history
        p == ev.convergence_criteria.marginal_gain_patience
        first == IF p >= 1 THEN Len(h) - p + 1 ELSE 1
    IN /\ Len(h) >= p
       /\ \A i \in first..Len(h) :
              Abs(h[i].delta) < ev.convergence_criteria.marginal_gain_threshold

\* C3 (as claimed): below max_iterations, check_convergence reports
\* marginal_gain_stop = true (with converged and forced true) exactly when the
\* history has at least patience entries, the last patience deltas are all
\* below the threshold in absolute value and the standard criteria are not all
\* met; when they are met on a plateau the verdict is converged with
\* marginal_gain_stop = false.
C3_AsClaimed ==
    Checked /\ ~AtMaxIterations(CheckedEv) =>
        /\ ret.val.marginal_gain_stop
              <=> (OnPlateau(CheckedEv) /\ ~MeetsStandard(CheckedEv))
        /\ ret.val.marginal_gain_stop
              => ret.val.converged /\ Has(ret.val, "forced") /\ ret.val.forced
        /\ OnPlateau(CheckedEv) /\ MeetsStandard(CheckedEv)
              => ret.val.converged /\ ~ret.val.marginal_gain_stop

\* C3 (amended): the same with the plateau read as the code reads it: for a
\* patience of 1 or more it is the claimed condition, and for a patience of 0
\* every recorded delta has to be below the threshold.
C3_PlateauStop ==
    Checked /\ ~AtMaxIterations(CheckedEv) =>
        /\ ret.val.marginal_gain_stop
              <=> (RecentPlateau(CheckedEv) /\ ~MeetsStandard(CheckedEv))
        /\ ret.val.marginal_gain_stop
              => ret.val.converged /\ Has(ret.val, "forced") /\ ret.val.forced
        /\ RecentPlateau(CheckedEv) /\ MeetsStandard(CheckedEv)
              => ret.val.converged /\ ~ret.val.marginal_gain_stop
        /\ CheckedEv.convergence_criteria.marginal_gain_patience >= 1
              => (RecentPlateau(CheckedEv) <=> OnPlateau(CheckedEv))

\* C3 witness: a plateau stop was reported under the default patience of 2 on
\* a row that fails the standard criteria.
C3_Witness ==
    /\ Checked
    /\ ~AtMaxIterations(CheckedEv)
    /\ CheckedEv.convergence_criteria.marginal_gain_patience = 2
    /\ Len(CheckedEv.confidence_history) >= 2
    /\ ~MeetsStandard(CheckedEv)
    /\ ret.val.marginal_gain_stop

\* C4: when neither the hard stop nor the plateau stop applies, converged is
\* true exactly when gaps, contradictions and confidence meet the stored
\* criteria, which are the defaults 0.7 / 2 / 0 with the caller's overrides
\* applied key by key.
C4_StandardCriteria ==
    /\ Checked /\ ~AtMaxIterations(CheckedEv) /\ ~ret.val.marginal_gain_stop
          => (ret.val.converged <=> MeetsStandard(CheckedEv))
    /\ \A id \in DOMAIN evaluations :
          LET c == evaluations[id].convergence_criteria
          IN \E o \in CriteriaChoices :
                /\ c.min_confidence =
                      IF Has(o, "min_confidence") THEN o.min_confidence ELSE 70
                /\ c.max_gaps = IF Has(o, "max_gaps") THEN o.max_gaps ELSE 2
                /\ c.max_contradictions =
                      IF Has(o, "max_contradictions") THEN o.max_contradictions ELSE 0

\* C4 witness: a verdict of not converged on a row created with a partial
\* override, whose confidence meets the overridden minimum but whose
\* contradictions exceed the default limit of 0.
C4_Witness ==
    /\ Checked
    /\ ~AtMaxIterations(CheckedEv)
    /\ ~ret.val.marginal_gain_stop
    /\ ~ret.val.converged
    /\ CheckedEv.convergence_criteria.min_confidence = 1
    /\ CheckedEv.convergence_criteria.max_contradictions = 0
    /\ CheckedEv.confidence >= 1
    /\ Len(CheckedEv.contradictions) = 1

(***************************************************************************)
(* Specification of the claim store: sources are registered, claims are    *)
(* added, linked to sources and decomposed, in any order.                  *)
(***************************************************************************)

\* The claims table is capped: add_claim is taken MaxTopLevel times at most,
\* and no call is taken that would make the table hold more than MaxClaims
\* rows.
MaxTopLevel == 1
MaxClaims == 4

Arxiv == [parses |-> TRUE, host |-> <<"arxiv", "org">>]
Unknown == [parses |-> TRUE, host |-> <<"example", "net">>]

SourceIdChoices == {1, 2}

TSimple == <<"W", "w", "w">>
TTwo == <<"W", "w", "w", ";", "w", "also", "w", "w">>
TThree == <<"W", "w", "w", ";", "w", "w", "w", ";", "w", "w", "w">>

\* Complex (two relative markers, 1.6) with nothing to split at.
TUnsplit == <<"W", "which", "w", "that", "w">>
\* Split at the "and" a capitalised word follows, not at the other one.
TAnd == <<"W", "w", "and", "w", "and", "W", "w", "w", ".">>

TextChoices == {TSimple, TTwo, TThree, TUnsplit, TAnd}
EntityChoices == {"e1"}
SourceIdsChoices == {<<>>, <<1>>}
RelationshipChoices == {"supports"}
MethodChoices == {"auto", "heuristic", "none"}

ClaimIds == 1..MaxClaims

AddClaim ==
    \E text \in TextChoices, entity \in EntityChoices, ids \in SourceIdsChoices :
        /\ Cardinality({i \in DOMAIN claims : claims[i].is_atomic = 0}) < MaxTopLevel
        /\ Len(claims) < MaxClaims
        /\ add_claim(text, entity, ids)

AddClaimSource ==
    \E c \in ClaimIds, s \in SourceIdChoices, rel \in RelationshipChoices :
        add_claim_source(c, s, rel)

\* The rows a decompose_claim call would insert.
RowsToInsert(c, method) ==
    IF c \in DOMAIN claims /\ ExistingAtoms(claims, c) = {}
       /\ DecomposeOutcome(claims[c].claim_text, method) = "split"
    THEN Len(_heuristic_decompose(claims[c].claim_text))
    ELSE 0

DecomposeClaim ==
    \E c \in ClaimIds, method \in MethodChoices :
        /\ Len(claims) + RowsToInsert(c, method) <= MaxClaims
        /\ decompose_claim(c, method)

GradeCompositeClaim == \E c \in ClaimIds : grade_composite_claim(c)

NextClaims == AddClaim \/ AddClaimSource \/ DecomposeClaim \/ GradeCompositeClaim

\* The store after add_source(Arxiv) and add_source(Unknown).
InitClaims ==
    /\ evaluations = <<>>
    /\ sources = <<SourceRow(Arxiv, "", "", 0),
                   SourceRow(Unknown, "", "", 0)>>
    /\ claims = <<>>
    /\ claim_sources = {}
    /\ ret = [op |-> "add_source", val |-> 2]
    /\ calls = <<>>
    /\ entities = <<>>
    /\ entity_links = {}
    /\ traces = <<>>

SpecClaims == InitClaims /\ [][NextClaims]_vars

(***************************************************************************)
(* Claims about decomposition and the composite rollup                     *)
(***************************************************************************)

\* The claims' own reading of the claims table.
ChildrenOf(cl, c) ==
    {i \in DOMAIN cl : cl[i].parent_claim_id = c /\ cl[i].is_atomic = 1}

SupportedOf(cl, c) ==
    {i \in ChildrenOf(cl, c) : cl[i].evidence_grade \in {"strong", "moderate"}}

\* The documented thresholds on S / N: 0.9, 0.6, 0.3.
ThresholdGrade(S, N) ==
    IF 10 * S >= 9 * N THEN "strong"
    ELSE IF 10 * S >= 6 * N THEN "moderate"
    ELSE IF 10 * S >= 3 * N THEN "weak"
    ELSE "contested"

\* x is num / den to the nearest unit (den > 0).
IsRounded(x, num, den) == 2 * Abs(x * den - num) <= den

\* C5: a decompose_claim call, with any method, on a claim that has atomic
\* children returns exactly the ids of those children, inserts no claims row
\* and no claim_sources row and leaves the claim 'composite'; and no step
\* changes the set of atomic children of a claim that has some.
C5_DecomposeIdempotent ==
    [][/\ \A c \in ClaimIds :
             ChildrenOf(claims, c) # {}
                 => ChildrenOf(claims', c) = ChildrenOf(claims, c)
       /\ \A c \in ClaimIds, method \in MethodChoices :
             (ret'.op = "decompose_claim" /\ ChildrenOf(claims, c) # {}
                 /\ decompose_claim(c, method))
                 => /\ {ret'.val[i] : i \in DOMAIN ret'.val} = ChildrenOf(claims, c)
                    /\ Len(ret'.val) = Cardinality(ChildrenOf(claims, c))
                    /\ Len(claims') = Len(claims)
                    /\ claim_sources' = claim_sources
                    /\ claims'[c].claim_type = "composite"]_vars

\* C5 witness: decompose_claim with method 'none' has returned the ids of
\* existing children (a first call with 'none' returns no ids), the other
\* methods being covered by the same steps.
C5_Witness ==
    /\ ret.op = "decompose_claim"
    /\ ret.method = "none"
    /\ Len(ret.val) = 3
    /\ \E c \in DOMAIN claims :
          /\ claims[c].claim_type = "composite"
          /\ ChildrenOf(claims, c) = {ret.val[i] : i \in DOMAIN ret.val}

\* C15 (as claimed): decompose_claim with method 'none' on an existing
\* claim, decomposed or not, leaves its claim_type 'singleton' and returns an
\* empty list.
C15_AsClaimed ==
    [][(ret'.op = "decompose_claim" /\ ret'.method = "none"
           /\ ret'.claim_id \in DOMAIN claims)
          => /\ claims'[ret'.claim_id].claim_type = "singleton"
             /\ ret'.val = <<>>]_vars

\* C15 (amended): decompose_claim with method 'none' on an existing claim
\* without atomic children sets its claim_type to 'singleton', whatever its
\* complexity score, changes nothing else and returns an empty list; on a
\* claim that has atomic children it returns their ids and changes nothing.
C15_MethodNone ==
    [][(ret'.op = "decompose_claim" /\ ret'.method = "none"
           /\ ret'.claim_id \in DOMAIN claims)
          => LET c == ret'.claim_id
             IN /\ claim_sources' = claim_sources
                /\ IF ChildrenOf(claims, c) = {}
                   THEN /\ ret'.val = <<>>
                        /\ claims' = [claims EXCEPT ![c].claim_type = "singleton"]
                   ELSE /\ {ret'.val[i] : i \in DOMAIN ret'.val} = ChildrenOf(claims, c)
                        /\ claims' = claims]_vars

\* C15 witness: method 'none' has been applied to a claim whose text scores
\* 3.0 (above the threshold 1.5) and splits in three: it is a 'singleton'
\* without children.
C15_Witness ==
    /\ ret.op = "decompose_claim"
    /\ ret.method = "none"
    /\ ret.claim_id \in DOMAIN claims
    /\ ret.val = <<>>
    /\ claims[ret.claim_id].claim_text = TThree
    /\ ComplexityScore(TThree) > 60
    /\ Len(_heuristic_decompose(TThree)) = 3
    /\ claims[ret.claim_id].claim_type = "singleton"
    /\ ChildrenOf(claims, ret.claim_id) = {}

\* C6 (as claimed): every composite claim has at least two children of type
\* 'atomic', every claim with a parent has type 'atomic', and every singleton
\* has neither children nor a parent.
C6_ClaimTypeInvariant ==
    \A c \in DOMAIN claims :
        /\ claims[c].claim_type = "composite"
              => Cardinality({i \in DOMAIN claims :
                                 /\ claims[i].parent_claim_id = c
                                 /\ claims[i].claim_type = "atomic"}) >= 2
        /\ claims[c].parent_claim_id # 0 => claims[c].claim_type = "atomic"
        /\ claims[c].claim_type = "singleton"
              => /\ claims[c].parent_claim_id = 0
                 /\ ~\E i \in DOMAIN claims : claims[i].parent_claim_id = c

\* C7 (as claimed): the stored grade of every composite claim is the rollup
\* grade of its atomic children's current grades.
C7_CompositeGradeIsRollup ==
    \A c \in DOMAIN claims :
        claims[c].claim_type = "composite" /\ ChildrenOf(claims, c) # {}
            => claims[c].evidence_grade =
                  ThresholdGrade(Cardinality(SupportedOf(claims, c)),
                                 Cardinality(ChildrenOf(claims, c)))

\* The row of c holds the rollup of its N >= 1 children, S of them graded
\* strong or moderate: the counts, S / N to three decimals, the grade by the
\* thresholds and 0.6 * S / N + 0.4 * mean(child confidences) to three
\* decimals.
RolledUp(cl, c) ==
    LET N == Cardinality(ChildrenOf(cl, c))
        S == Cardinality(SupportedOf(cl, c))
        conf_sum == SumOver(ChildrenOf(cl, c),
                            [i \in ChildrenOf(cl, c) |-> cl[i].confidence])
        m == cl[c].metadata
    IN /\ {"factscore", "atomic_count", "supported_count"} \subseteq DOMAIN m
       /\ m.atomic_count = N
       /\ m.supported_count = S
       /\ IsRounded(m.factscore, 1000 * S, N)
       /\ cl[c].evidence_grade = ThresholdGrade(S, N)
       /\ IsRounded(cl[c].confidence, 6000 * S + 4 * conf_sum, 10 * N)

\* C8: every run of _grade_composite_claim on a claim with children (called on
\* its own, after a child is graded by add_claim_source, or at the end of a
\* decomposition) leaves the rollup of the children in the claim's row, and a
\* run on a claim without children changes nothing.
C8_Rollup ==
    [][\A c \in ClaimIds :
          /\ (ret'.op = "_grade_composite_claim" /\ grade_composite_claim(c))
                => IF c \in DOMAIN claims /\ ChildrenOf(claims, c) # {}
                   THEN RolledUp(claims', c)
                   ELSE claims' = claims
          /\ \A k \in ChildrenOf(claims, c) :
                (ret'.op = "add_claim_source" /\ ret'.val
                    /\ \E s \in SourceIdChoices, rel \in RelationshipChoices :
                           add_claim_source(k, s, rel))
                    => RolledUp(claims', c)
          /\ (ret'.op = "decompose_claim" /\ Len(claims') > Len(claims)
                /\ \E method \in MethodChoices : decompose_claim(c, method))
                => RolledUp(claims', c)]_vars

\* C8 witness: a rollup called on its own left two supported children of
\* three in the row: factscore 0.667 and grade 'moderate'.
C8_Witness ==
    /\ ret.op = "_grade_composite_claim"
    /\ \E c \in DOMAIN claims :
          /\ Cardinality(ChildrenOf(claims, c)) = 3
          /\ Cardinality(SupportedOf(claims, c)) = 2
          /\ claims[c].metadata.factscore = 667
          /\ claims[c].metadata.supported_count = 2
          /\ claims[c].evidence_grade = "moderate"

(***************************************************************************)
(* Specification of the base grader: one claim, linked to five sources     *)
(* under every relationship, in any order.                                 *)
(***************************************************************************)

Economist == [parses |-> TRUE, host |-> <<"economist", "com">>]
Nih == [parses |-> TRUE, host |-> <<"nih", "gov">>]
\* Two URLs urlparse raises on.
Bad1 == [parses |-> FALSE, host |-> <<"[bad1">>]
Bad2 == [parses |-> FALSE, host |-> <<"[bad2">>]

GradeUrls == <<Arxiv, Economist, Nih, Bad1, Bad2>>

GradeRelationships == {"supports", "confirms", "contradicts", "refutes", "mentions"}
GradeSourceIdsChoices == {<<>>, <<1, 2>>, <<4, 5, 4>>}

\* The store after add_source of each of GradeUrls.
InitGrade ==
    /\ evaluations = <<>>
    /\ sources = [i \in DOMAIN GradeUrls |->
                     SourceRow(GradeUrls[i], "", "", 0)]
    /\ claims = <<>>
    /\ claim_sources = {}
    /\ ret = [op |-> "add_source", val |-> Len(GradeUrls)]
    /\ calls = <<>>
    /\ entities = <<>>
    /\ entity_links = {}
    /\ traces = <<>>

AddGradedClaim ==
    \E ids \in GradeSourceIdsChoices :
        /\ claims = <<>>
        /\ add_claim(TSimple, "e1", ids)

LinkGradedClaim ==
    \E s \in DOMAIN GradeUrls, rel \in GradeRelationships :
        /\ claims # <<>>
        /\ add_claim_source(1, s, rel)

NextGrade == AddGradedClaim \/ LinkGradedClaim

SpecGrade == InitGrade /\ [][NextGrade]_vars

\* The claims' own reading of a claim's linked (credibility, relationship)
\* pairs: the supporting and contradicting links and the sum of the
\* supporting credibilities.
Supporting(c) ==
    {l \in claim_sources : l.claim_id = c /\ l.relationship \in {"supports", "confirms"}}

Contradicting(c) ==
    {l \in claim_sources : l.claim_id = c /\ l.relationship \in {"contradicts", "refutes"}}

SupportTotal(c) ==
    SumOver(Supporting(c), [l \in Supporting(c) |-> sources[l.source_id].credibility])

StrongRule(nS, total) == nS >= 3 /\ total >= 70 * nS
ModerateRule(nS, total) == ~StrongRule(nS, total) /\ nS >= 2 /\ total >= 50 * nS

C11_PushBasedGrading ==
    \A c \in DOMAIN claims :
        ChildrenOf(claims, c) = {} =>
            LET g == BaseGrade([l \in Supporting(c) |->
                                   sources[l.source_id].credibility],
                               Cardinality(Contradicting(c)))
            IN /\ claims[c].evidence_grade = g.grade
               /\ claims[c].confidence = g.confidence

\* C11 witness: a claim added with two supporting sources (graded 'moderate'
\* by add_claim) has been linked to a refuting source and is stored
\* 'contested'.
C11_Witness ==
    /\ ret.op = "add_claim_source"
    /\ ret.val
    /\ \E c \in DOMAIN claims :
          /\ {l.source_id : l \in Supporting(c)} = {1, 2}
          /\ \E l \in Contradicting(c) : l.relationship = "refutes"
          /\ claims[c].evidence_grade = "contested"

(***************************************************************************)
(* Specification of a claim with many sources: every source is unknown     *)
(* (credibility 0.5) and supports the claims it is linked to.              *)
(***************************************************************************)

NumManySources == 10

ManyUrl(i) == [parses |-> TRUE, host |-> <<"example", "net">>, path |-> i]

InitMany ==
    /\ evaluations = <<>>
    /\ sources = [i \in 1..NumManySources |->
                     SourceRow(ManyUrl(i), "", "", 0)]
    /\ claims = <<>>
    /\ claim_sources = {}
    /\ ret = [op |-> "add_source", val |-> NumManySources]
    /\ calls = <<>>
    /\ entities = <<>>
    /\ entity_links = {}
    /\ traces = <<>>

AddManyClaim ==
    \E text \in {TSimple, TTwo}, n \in {0, NumManySources - 1} :
        /\ claims = <<>>
        /\ add_claim(text, "e1", [i \in 1..n |-> i])

\* The sources are linked to a claim in the order of their ids.
LinkManyClaim ==
    \E c \in DOMAIN claims :
        /\ Cardinality(LinksOf(claim_sources, c)) < NumManySources
        /\ add_claim_source(c, Cardinality(LinksOf(claim_sources, c)) + 1, "supports")

DecomposeManyClaim ==
    \E c \in DOMAIN claims : decompose_claim(c, "auto")

NextMany == AddManyClaim \/ LinkManyClaim \/ DecomposeManyClaim

SpecMany == InitMany /\ [][NextMany]_vars

\* C10 (as claimed): the stored confidence of every claim is between 0 and 1.
C10_ConfidenceInUnitInterval ==
    \A c \in DOMAIN claims :
        claims[c].confidence >= 0 /\ claims[c].confidence <= 1000

(***************************************************************************)
(* Specification of source inheritance: one claim of two or three parts,   *)
(* owned by one of two entities, is linked to two sources with supporting  *)
(* and contradicting relationships, before and after it is decomposed.     *)
(***************************************************************************)

InheritTexts == {TTwo, TThree}
InheritEntities == {"e1", "e2"}
InheritRelationships == {"supports", "contradicts"}

InitInherit ==
    /\ evaluations = <<>>
    /\ sources = <<SourceRow(Arxiv, "", "", 0),
                   SourceRow(Unknown, "", "", 0)>>
    /\ claims = <<>>
    /\ claim_sources = {}
    /\ ret = [op |-> "add_source", val |-> 2]
    /\ calls = <<>>
    /\ entities = <<>>
    /\ entity_links = {}
    /\ traces = <<>>

AddInheritClaim ==
    \E text \in InheritTexts, entity \in InheritEntities, ids \in SourceIdsChoices :
        /\ claims = <<>>
        /\ add_claim(text, entity, ids)

\* Sources are linked to the top-level claim, before and after it is
\* decomposed.
LinkInheritClaim ==
    \E c \in DOMAIN claims, s \in SourceIdChoices, rel \in InheritRelationships :
        /\ claims[c].is_atomic = 0
        /\ add_claim_source(c, s, rel)

DecomposeInheritClaim ==
    \E c \in DOMAIN claims, method \in MethodChoices : decompose_claim(c, method)

NextInherit == AddInheritClaim \/ LinkInheritClaim \/ DecomposeInheritClaim

SpecInherit == InitInherit /\ [][NextInherit]_vars

\* The (source_id, relationship) pairs linked to a claim.
LinkSet(cs, c) == {<<l.source_id, l.relationship>> : l \in LinksOf(cs, c)}

\* C16: right after a decompose_claim call that creates atomic children, each
\* child has the parent's entity_id and exactly the parent's (source_id,
\* relationship) links as they were at the call, and the parent's links are
\* unchanged.
C16_SourceInheritance ==
    [][(ret'.op = "decompose_claim" /\ Len(claims') > Len(claims))
          => LET p == ret'.claim_id
                 children == DOMAIN claims' \ DOMAIN claims
             IN /\ children = {ret'.val[i] : i \in DOMAIN ret'.val}
                /\ \A k \in children :
                      /\ claims'[k].parent_claim_id = p
                      /\ claims'[k].entity_id = claims[p].entity_id
                      /\ LinkSet(claim_sources', k) = LinkSet(claim_sources, p)
                /\ LinkSet(claim_sources', p) = LinkSet(claim_sources, p)
                /\ claims'[p].entity_id = claims[p].entity_id]_vars

\* C16 witness: a claim of entity e2 with one supporting and one
\* contradicting source has just been decomposed in three, and each child
\* carries both links.
C16_Witness ==
    /\ ret.op = "decompose_claim"
    /\ ret.val = <<2, 3, 4>>
    /\ claims[1].entity_id = "e2"
    /\ LinkSet(claim_sources, 1) = {<<1, "contradicts">>, <<2, "supports">>}
    /\ \A k \in {2, 3, 4} :
          /\ claims[k].entity_id = "e2"
          /\ LinkSet(claim_sources, k) = LinkSet(claim_sources, 1)

Linked(cs, c, s) == \E l \in cs : l.claim_id = c /\ l.source_id = s

\* The part of C17 about the store: add_claim_source on a pair that is
\* already linked changes no claim_sources row and no claim.
C17_DuplicateLeavesStore ==
    [][\A c \in DOMAIN claims, s \in SourceIdChoices, rel \in InheritRelationships :
          (ret'.op = "add_claim_source" /\ Linked(claim_sources, c, s)
              /\ add_claim_source(c, s, rel))
          => /\ claim_sources' = claim_sources
             /\ claims' = claims]_vars

\* C17 (as claimed): add_claim_source on a pair that is already linked, with
\* the same or another relationship, changes no claim_sources row and no
\* claim, and reports success.
C17_DuplicateLinkSucceeds ==
    [][\A c \in DOMAIN claims, s \in SourceIdChoices, rel \in InheritRelationships :
          (ret'.op = "add_claim_source" /\ Linked(claim_sources, c, s)
              /\ add_claim_source(c, s, rel))
          => /\ claim_sources' = claim_sources
             /\ claims' = claims
             /\ ret'.val = TRUE]_vars

(***************************************************************************)
(* Specification of source registration: URLs are registered and           *)
(* registered again with other titles and times, while one claim is        *)
(* linked to the sources.                                                  *)
(***************************************************************************)

\* The sources table holds at most MaxSources rows.
MaxSources == 2

SourceUrls == {Arxiv, Nih, Unknown}
TitleChoices == {"", "t1"}
SnippetChoices == {"s1", "s2"}
NowChoices == {1, 2}

InitSources ==
    /\ evaluations = <<>>
    /\ sources = <<>>
    /\ claims = <<>>
    /\ claim_sources = {}
    /\ ret = [op |-> "init"]
    /\ calls = <<>>
    /\ entities = <<>>
    /\ entity_links = {}
    /\ traces = <<>>

AddSource ==
    \E url \in SourceUrls, title \in TitleChoices, snippet \in SnippetChoices,
       now \in NowChoices :
        /\ Registered(sources, url) \/ Len(sources) < MaxSources
        /\ add_source(url, title, snippet, now)

AddSourcedClaim ==
    \E ids \in {<<>>, <<1>>, <<1, 2>>} :
        /\ claims = <<>>
        /\ add_claim(TSimple, "e1", ids)

LinkSourcedClaim ==
    \E c \in DOMAIN claims, s \in 1..MaxSources : add_claim_source(c, s, "supports")

NextSources == AddSource \/ AddSourcedClaim \/ LinkSourcedClaim

SpecSources == InitSources /\ [][NextSources]_vars

\* C18: add_source of a URL that is already registered returns the id of the
\* existing row, adds no row, and leaves every URL, every credibility and
\* every claim as it was; only title, snippet and accessed_at of that row
\* may differ.
C18_IdempotentSourceTrust ==
    [][(ret'.op = "add_source" /\ \E i \in DOMAIN sources : sources[i].url = ret'.url)
          => /\ Len(sources') = Len(sources)
             /\ ret'.val \in DOMAIN sources
             /\ sources[ret'.val].url = ret'.url
             /\ \A i \in DOMAIN sources :
                   /\ sources'[i].url = sources[i].url
                   /\ sources'[i].credibility = sources[i].credibility
                   /\ i # ret'.val => sources'[i] = sources[i]
             /\ claims' = claims
             /\ claim_sources' = claim_sources
             /\ \A c \in DOMAIN claims :
                   _grade_claim(claims', claim_sources', sources', c) = claims']_vars

\* C18 witness: the first of two sources, linked to a graded claim, has been
\* registered again with another title at another time.
C18_Witness ==
    /\ ret.op = "add_source"
    /\ ret.val = 1
    /\ Len(sources) = 2
    /\ sources[1].url = Arxiv
    /\ sources[1].credibility = 88
    /\ sources[1].title = "t1"
    /\ sources[1].snippet = "s2"
    /\ sources[1].accessed_at = 2
    /\ \E l \in claim_sources : l.claim_id = 1 /\ l.source_id = 1
    /\ claims[1].evidence_grade = "moderate"

(***************************************************************************)
(* Specification of self-consistency grading.  A simple claim is linked to *)
(* two sources (credibilities 0.88 and 0.5) with supporting and            *)
(* contradicting relationships; a claim of two parts is created with both  *)
(* sources and decomposed.  grade_claim_sc is applied, again and again, to *)
(* one claim of the store: the simple claim, the composite or a child.     *)
(***************************************************************************)

\* A call draws at most MaxSamples samples.
MaxSamples == 4

\* The outcomes of the three random calls of one sample: a source more,
\* more credibility and a confidence noise that drives an unclamped
\* confidence above 1; a source less, less credibility and a noise that
\* drives it below 0.
DrawChoices ==
    {[noise |-> 900, cred_noise |-> 60, choice |-> 1],
     [noise |-> -400, cred_noise |-> -300, choice |-> -1]}

SCRelationships == {"supports", "contradicts"}

InitSC ==
    /\ evaluations = <<>>
    /\ sources = <<SourceRow(Arxiv, "", "", 0), SourceRow(Unknown, "", "", 0)>>
    /\ claims = <<>>
    /\ claim_sources = {}
    /\ ret = [op |-> "add_source", url |-> Unknown, val |-> 2]
    /\ calls = <<>>
    /\ entities = <<>>
    /\ entity_links = {}
    /\ traces = <<>>

AddSCClaim ==
    \E text \in {TSimple, TTwo}, ids \in {<<>>, <<1, 2>>} :
        /\ claims = <<>>
        /\ text = TTwo => ids = <<1, 2>>
        /\ add_claim(text, "e1", ids)

LinkSCClaim ==
    \E c \in DOMAIN claims, s \in SourceIdChoices, rel \in SCRelationships :
        /\ claims[c].claim_text = TSimple
        /\ add_claim_source(c, s, rel)

DecomposeSCClaim == \E c \in DOMAIN claims : decompose_claim(c, "auto")

\* The claims that carry a self-consistency record.
SCGraded == {d \in DOMAIN claims : "self_consistency" \in DOMAIN claims[d].metadata}

GradeClaimSC ==
    \E c \in DOMAIN claims, n \in 0..MaxSamples :
        /\ SCGraded \subseteq {c}
        /\ \E draws \in [1..n -> DrawChoices] : grade_claim_sc(c, n, draws)

\* grade_claim_sc of a claim that does not exist draws nothing.
GradeMissingClaimSC ==
    \E n \in 1..MaxSamples : grade_claim_sc(Len(claims) + 1, n, <<>>)

NextSC ==
    AddSCClaim \/ LinkSCClaim \/ DecomposeSCClaim \/ GradeClaimSC \/ GradeMissingClaimSC

SpecSC == InitSC /\ [][NextSC]_vars

\* The last call was grade_claim_sc on a claim that exists.
SCReturned == ret.op = "grade_claim_sc" /\ "val" \in DOMAIN ret

\* The grades that tie for the highest count.
TopGrades(grades) ==
    {grades[i] : i \in {j \in DOMAIN grades :
                           GradeCount(grades, grades[j]) = MaxGradeCount(grades)}}

\* C19 (as claimed): the majority_grade grade_claim_sc returns is, of the
\* grades with the highest count, the one whose running count reached that
\* count first in sample order (B for A, B, B, A).
C19_AsClaimed ==
    SCReturned =>
        LET g == ret.grades
            m == MaxGradeCount(g)
        IN /\ ret.val.majority_grade \in TopGrades(g)
           /\ \A h \in TopGrades(g) :
                 ReachIndex(g, ret.val.majority_grade, m) <= ReachIndex(g, h, m)

\* C19 (amended): the majority_grade grade_claim_sc returns is, of the grades
\* with the highest count, the one that occurs first in sample order (A for
\* A, B, B, A).
C19_FirstEncounteredWins ==
    SCReturned =>
        LET g == ret.grades
        IN /\ ret.val.majority_grade \in TopGrades(g)
           /\ \A h \in TopGrades(g) :
                 FirstSeen(g, ret.val.majority_grade) <= FirstSeen(g, h)

\* C19 witness: the samples weak, strong, strong, weak tie at two each and
\* the majority is 'weak'.
C19_Witness ==
    /\ SCReturned
    /\ ret.grades = <<"weak", "strong", "strong", "weak">>
    /\ ret.val.majority_grade = "weak"
    /\ claims[ret.claim_id].evidence_grade = "weak"

Grades == {"strong", "moderate", "weak", "ungraded", "contested"}

\* Every stored claim has one of the five grades and a confidence in [0, 1]:
\* what _grade_claim, the rollup and grade_claim_sc leave behind.
C21_StoredGradesValid ==
    \A c \in DOMAIN claims :
        /\ claims[c].evidence_grade \in Grades
        /\ claims[c].confidence \in 0..1000

\* C21 (as claimed): grade_claim_sc on an existing claim, with any number of
\* samples from 0 on, returns without raising and leaves the claim with one
\* of the five grades and a numeric confidence.
C21_GradingTotal ==
    (ret.op = "grade_claim_sc" /\ ret.claim_id \in DOMAIN claims)
        => /\ "raised" \notin DOMAIN ret
           /\ claims[ret.claim_id].evidence_grade \in Grades
           /\ claims[ret.claim_id].confidence \in 0..1000

\* C20: after grade_claim_sc on an existing claim with n_samples >= 1, the
\* agreement returned is the share of the samples that have the majority
\* grade (to 3 decimals) and lies in [0, 1]; final_confidence lies in [0, 1]
\* and exceeds the mean confidence of the agreeing samples by no more than the
\* rounding (0.0005); and the claim's stored grade and confidence are the
\* returned majority_grade and final_confidence.
C20_SelfConsistencyBounds ==
    SCReturned =>
        LET r == ret.val
            n == r.n_samples
            agreeing == {i \in DOMAIN ret.grades : ret.grades[i] = r.majority_grade}
            m == Cardinality(agreeing)
            sum == SumOver(agreeing, ret.confidences)
        IN /\ n >= 1 /\ Len(ret.grades) = n
           /\ m >= 1
           /\ r.agreement = RoundDiv(1000 * m, n)
           /\ r.agreement >= 0 /\ r.agreement <= 1000
           /\ r.final_confidence >= 0 /\ r.final_confidence <= 1000
           /\ 2 * m * r.final_confidence <= 2 * sum + m
           /\ claims[ret.claim_id].evidence_grade = r.majority_grade
           /\ claims[ret.claim_id].confidence = r.final_confidence

\* C20 witness: an atomic child has been graded from four samples of which
\* three agree; its stored confidence is the one returned, below the mean of
\* the agreeing samples.
C20_Witness ==
    /\ SCReturned
    /\ ret.val.n_samples = 4
    /\ ret.val.agreement = 750
    /\ claims[ret.claim_id].parent_claim_id # 0
    /\ claims[ret.claim_id].evidence_grade = ret.val.majority_grade
    /\ claims[ret.claim_id].confidence = ret.val.final_confidence
    /\ ret.val.final_confidence > 0
    /\ \E i \in DOMAIN ret.grades :
          ret.grades[i] = ret.val.majority_grade
          /\ ret.val.final_confidence < ret.confidences[i]

(***************************************************************************)
(* Specification of the gap bandit: one evaluation whose gaps are set,     *)
(* registered, fed with results and selected from, in any order.           *)
(***************************************************************************)

\* A topic is fed at most MaxAttempts results.
MaxAttempts == 2

\* "a" and "b" are registered and fed; "c" is a gap that is never tracked.
GapTopics == {"a", "b"}
GapListChoices == {<<>>, <<"a">>, <<"c", "a", "b">>}
RegisterChoices == {<<"a">>, <<"b", "a">>}
\* In hundredths: a loss, and a gain equal to the default threshold 0.02.
DeltaChoices == {-1, 2}
GapResultsChoices == UNION {[T -> DeltaChoices] : T \in SUBSET GapTopics}
GapConfidenceChoices == {50}
\* Rounded Beta samples, in ten-thousandths.
ScoreChoices == {2500, 7500}
SelectNChoices == {0, 1, 3}

\* The store after add_evaluation(parent, max_iterations = 3).
InitGaps ==
    /\ evaluations = <<NewEvaluation("e1", 3, <<>>)>>
    /\ sources = <<>>
    /\ claims = <<>>
    /\ claim_sources = {}
    /\ ret = [op |-> "add_evaluation", val |-> 1]
    /\ calls = <<>>
    /\ entities = <<>>
    /\ entity_links = {}
    /\ traces = <<>>

Attempts(ev, t) ==
    IF t \in DOMAIN ev.gap_thompson_params
    THEN ev.gap_thompson_params[t].attempts ELSE 0

RegisterGapTopics ==
    \E topics \in RegisterChoices : register_gap_topics(1, topics)

UpdateGaps ==
    \E confidence \in Opt(GapConfidenceChoices),
       gaps \in Opt(GapListChoices),
       gap_results \in Opt(GapResultsChoices) :
        /\ ~IsNone(confidence)
              => Len(evaluations[1].confidence_history) < MaxHistory
        /\ ~IsNone(gap_results)
              => \A t \in DOMAIN Val(gap_results) :
                     Attempts(evaluations[1], t) < MaxAttempts
        /\ update_evaluation(1, confidence, gaps, None, None, None, gap_results)

SelectNextGaps ==
    \E n \in SelectNChoices,
       draws \in [1..Len(Candidates(evaluations[1])) -> ScoreChoices] :
        select_next_gaps(1, n, draws)

NextGaps == RegisterGapTopics \/ UpdateGaps \/ SelectNextGaps

SpecGaps == InitGaps /\ [][NextGaps]_vars

(***************************************************************************)
(* Claims about the gap bandit                                             *)
(***************************************************************************)

\* The claims' own reading of an evaluation's Thompson parameters.
Tracked(ev) == DOMAIN ev.gap_thompson_params

ParamsOf(ev, t) == ev.gap_thompson_params[t]

\* The parameters a result for t starts from: the stored ones, or the seed.
SeedOf(ev, t) ==
    IF t \in Tracked(ev) THEN ParamsOf(ev, t)
    ELSE [alpha |-> 1, beta |-> 1, attempts |-> 0, total_gain |-> 0]

C13_ThompsonMonotone ==
    [][/\ \A t \in Tracked(evaluations[1]) :
             /\ t \in Tracked(evaluations'[1])
             /\ ParamsOf(evaluations'[1], t).alpha >= ParamsOf(evaluations[1], t).alpha
             /\ ParamsOf(evaluations'[1], t).beta >= ParamsOf(evaluations[1], t).beta
       /\ \A t \in Tracked(evaluations'[1]) \ Tracked(evaluations[1]) :
             /\ ParamsOf(evaluations'[1], t).alpha >= 1
             /\ ParamsOf(evaluations'[1], t).beta >= 1
       /\ ret'.op = "register_gap_topics" =>
             /\ \A t \in Tracked(evaluations[1]) :
                   ParamsOf(evaluations'[1], t) = ParamsOf(evaluations[1], t)
             /\ \A t \in Tracked(evaluations'[1]) \ Tracked(evaluations[1]) :
                   ParamsOf(evaluations'[1], t)
                       = [alpha |-> 1, beta |-> 1, attempts |-> 0, total_gain |-> 0]
       /\ ret'.op = "select_next_gaps" =>
             \A i \in DOMAIN ret'.val :
                 /\ ret'.val[i].expected_value >= 0
                 /\ ret'.val[i].expected_value <= 10000
                 /\ IsRounded(ret'.val[i].expected_value, 10000 * ret'.val[i].alpha,
                              ret'.val[i].alpha + ret'.val[i].beta)]_vars

\* C13 witness: register_gap_topics has been called (every call names "a")
\* after "a" had taken two successful results, and "a" still has alpha 3.
C13_Witness ==
    /\ ret.op = "register_gap_topics"
    /\ "a" \in Tracked(evaluations[1])
    /\ ParamsOf(evaluations[1], "a").alpha = 3
    /\ "b" \in Tracked(evaluations[1])
    /\ ParamsOf(evaluations[1], "b").attempts = 0

\* C14: whatever the draws, a select_next_gaps(eval_id, n) call changes
\* nothing in the evaluation, returns at most n entries, each for a topic of
\* the current gaps list (so no topic that is tracked but not a gap), in
\* descending order of thompson_score.
C14_GapSelection ==
    [][ret'.op = "select_next_gaps" =>
          /\ evaluations' = evaluations
          /\ Len(ret'.val) <= ret'.n
          /\ \A i \in DOMAIN ret'.val :
                \E j \in DOMAIN evaluations[1].gaps :
                    evaluations[1].gaps[j] = ret'.val[i].topic
          /\ \A i \in DOMAIN ret'.val, j \in DOMAIN ret'.val :
                i < j => ret'.val[i].thompson_score >= ret'.val[j].thompson_score]_vars

\* C14 witness: a selection of up to three gaps has returned "a" alone while
\* "b" is tracked, with a result behind it, and is not a gap.
C14_Witness ==
    /\ ret.op = "select_next_gaps"
    /\ ret.n = 3
    /\ evaluations[1].gaps = <<"a">>
    /\ "b" \in Tracked(evaluations[1])
    /\ ParamsOf(evaluations[1], "b").attempts = 1
    /\ Len(ret.val) = 1
    /\ ret.val[1].topic = "a"

(***************************************************************************)
(* Specification of calls with unknown ids: a store with up to three       *)
(* claims and one evaluation, on which every operation that takes a claim  *)
(* id or an evaluation id is called with an id that has no row.            *)
(***************************************************************************)

\* The ids that have no row in a table of n rows.
MissingIds(n) == {0, n + 1}

SearchChoices ==
    {None, Some(<<>>),
     Some(<<[url |-> Nih, title |-> "t1", snippet |-> "s1"],
            [url |-> Arxiv, title |-> "t1", snippet |-> "s1"]>>)}

InitMissing ==
    /\ evaluations = <<>>
    /\ sources = <<SourceRow(Arxiv, "", "", 0), SourceRow(Unknown, "", "", 0)>>
    /\ claims = <<>>
    /\ claim_sources = {}
    /\ ret = [op |-> "add_source", url |-> Unknown, val |-> 2]
    /\ calls = <<>>
    /\ entities = <<>>
    /\ entity_links = {}
    /\ traces = <<>>

AddStoredClaim ==
    \E text \in {TSimple, TTwo}, ids \in SourceIdsChoices :
        /\ claims = <<>>
        /\ add_claim(text, "e1", ids)

DecomposeStoredClaim == \E c \in DOMAIN claims : decompose_claim(c, "auto")

AddStoredEvaluation ==
    /\ evaluations = <<>>
    /\ add_evaluation("e1", 3, <<>>)

UpdateStoredEvaluation ==
    \E confidence \in GapConfidenceChoices, gaps \in GapListChoices :
        /\ evaluations # <<>>
        /\ Len(evaluations[1].confidence_history) < MaxHistory
        /\ update_evaluation(1, Some(confidence), Some(gaps), None, None, None, None)

DecomposeMissing ==
    \E c \in MissingIds(Len(claims)), method \in MethodChoices : decompose_claim(c, method)

GradeMissing ==
    \E c \in MissingIds(Len(claims)), n \in {0, 1} : grade_claim_sc(c, n, <<>>)

VerifyMissing ==
    \E c \in MissingIds(Len(claims)), search \in SearchChoices : verify_claim(c, search, 1)

CheckMissing == \E e \in MissingIds(Len(evaluations)) : check_convergence(e)

SelectMissing ==
    \E e \in MissingIds(Len(evaluations)), n \in SelectNChoices :
        select_next_gaps(e, n, <<>>)

RegisterMissing ==
    \E e \in MissingIds(Len(evaluations)), topics \in RegisterChoices :
        register_gap_topics(e, topics)

UpdateMissing ==
    \E e \in MissingIds(Len(evaluations)),
       confidence \in Opt(GapConfidenceChoices),
       gaps \in Opt(GapListChoices),
       status \in Opt({"converged"}),
       iteration \in Opt({2}),
       gap_results \in Opt(GapResultsChoices) :
        update_evaluation(e, confidence, gaps, None, status, iteration, gap_results)

NextMissing ==
    \/ AddStoredClaim \/ DecomposeStoredClaim \/ AddStoredEvaluation
    \/ UpdateStoredEvaluation
    \/ DecomposeMissing \/ GradeMissing \/ VerifyMissing \/ CheckMissing
    \/ SelectMissing \/ RegisterMissing \/ UpdateMissing

SpecMissing == InitMissing /\ [][NextMissing]_vars

\* What each operation returns for an id that has no row.
NotFoundValue(r) ==
    \/ r.op = "decompose_claim" /\ r.val = <<>>
    \/ r.op \in {"grade_claim_sc", "verify_claim"}
          /\ "error" \in DOMAIN r /\ r.error = "claim not found"
    \/ r.op = "check_convergence"
          /\ r.val = [converged |-> FALSE, reason |-> "evaluation not found"]
    \/ r.op = "select_next_gaps" /\ r.val = <<>>
    \/ r.op \in {"register_gap_topics", "update_evaluation"}

\* C22: a call of decompose_claim, grade_claim_sc, verify_claim,
\* check_convergence, select_next_gaps, register_gap_topics or
\* update_evaluation with an id that has no row does not raise, returns its
\* not-found value, and changes no claim, link, source or evaluation and
\* adds no row.
C22_NotFoundIsSoft ==
    [][(\/ ret'.op \in {"decompose_claim", "grade_claim_sc", "verify_claim"}
             /\ ret'.claim_id \notin DOMAIN claims
        \/ ret'.op \in {"check_convergence", "select_next_gaps",
                        "register_gap_topics", "update_evaluation"}
             /\ ret'.eval_id \notin DOMAIN evaluations)
          => /\ NotFoundValue(ret')
             /\ "raised" \notin DOMAIN ret'
             /\ evaluations' = evaluations
             /\ sources' = sources
             /\ claims' = claims
             /\ claim_sources' = claim_sources]_vars

\* C22 witness: update_evaluation, given a confidence and gap results, has
\* returned for an unknown evaluation id while the store holds a decomposed
\* claim and an evaluation with a recorded confidence.
C22_Witness ==
    /\ ret.op = "update_evaluation"
    /\ ret.eval_id \notin DOMAIN evaluations
    /\ ~IsNone(ret.gap_results)
    /\ Len(claims) = 3
    /\ Len(evaluations) = 1
    /\ evaluations[1].gap_thompson_params = <<>>
    /\ Len(evaluations[1].confidence_history) = 1

(***************************************************************************)
(* Domain scoring of arbitrary URL strings: sources are registered from    *)
(* well-formed URLs of every matching kind, from a string urlparse raises  *)
(* on, and from strings urlparse accepts with an empty network location    *)
(* ('', 'not a url', 'nature.com/x', 'http:///path').                      *)
(***************************************************************************)

MaxScored == 3

\* urlparse accepts the string; netloc is '' (no scheme://host part).
NoHost == [parses |-> TRUE, host |-> <<>>]
\* Matches no exact entry; its last label is a TLD entry.
EduHost == [parses |-> TRUE, host |-> <<"x", "edu">>]

ScoreUrls == {Arxiv, Nih, Economist, EduHost, Unknown, Bad1, NoHost}

\* No host can be read from the string: urlparse raised, or netloc is empty.
Malformed(url) == ~url.parses \/ url.host = <<>>

\* The host matches an entry of the table exactly, by TLD or by suffix.
Matches(url) ==
    \/ url.host \in DOMAIN DOMAIN_CREDIBILITY
    \/ Len(url.host) > 0 /\ <<url.host[Len(url.host)]>> \in DOMAIN DOMAIN_CREDIBILITY
    \/ \E k \in DOMAIN DOMAIN_CREDIBILITY : IsSuffix(k, url.host)

ScoreUrl ==
    \E url \in ScoreUrls :
        /\ Len(sources) < MaxScored
        /\ add_source(url, "", "", 1)

NextScore == ScoreUrl

SpecScore == InitSources /\ [][NextScore]_vars

\* C23: every source registered from a malformed URL (urlparse raises, or no
\* host can be parsed from the string) has credibility 0.4, and credibility
\* 0.5 is stored only for a well-formed URL whose host matches no exact, TLD
\* or suffix entry of the table.
C23_MalformedFailSoft ==
    \A i \in DOMAIN sources :
        /\ Malformed(sources[i].url) => sources[i].credibility = 40
        /\ sources[i].credibility = 50
              => ~Malformed(sources[i].url) /\ ~Matches(sources[i].url)

\* What the code does hold to: 0.4 exactly when urlparse raises, and every
\* call returns an id (nothing is raised).
C23_RaisingOnlyIs40 ==
    \A i \in DOMAIN sources :
        sources[i].credibility = 40 <=> ~sources[i].url.parses

(***************************************************************************)
(* Cascade of a child's re-grade to its composite parent: one composite    *)
(* claim whose atomic children are linked to sources (a second link of the *)
(* same source included) and graded by self-consistency, and which is      *)
(* itself graded by self-consistency.                                      *)
(***************************************************************************)

MaxCascadeSamples == 1

CascadeRelationships == {"supports", "contradicts"}

\* The atomic children of some composite.
Children(cl) == {c \in DOMAIN cl : cl[c].is_atomic = 1 /\ cl[c].parent_claim_id # 0}

AddCascadeClaim ==
    /\ claims = <<>>
    /\ add_claim(TTwo, "e1", <<>>)

DecomposeCascadeClaim == \E c \in DOMAIN claims : decompose_claim(c, "auto")

LinkChild ==
    \E c \in Children(claims), s \in SourceIdChoices, rel \in CascadeRelationships :
        /\ s = 1 => rel = "supports"
        /\ add_claim_source(c, s, rel)

GradeChildSC ==
    \E c \in Children(claims), n \in 0..MaxCascadeSamples :
        /\ SCGraded \subseteq {c}
        /\ \E draws \in [1..n -> DrawChoices] : grade_claim_sc(c, n, draws)

GradeParentSC ==
    \E c \in DOMAIN claims :
        /\ AtomicChildren(claims, c) # {}
        /\ SCGraded \subseteq {c}
        /\ \E draws \in [1..1 -> DrawChoices] : grade_claim_sc(c, 1, draws)

NextCascade ==
    AddCascadeClaim \/ DecomposeCascadeClaim \/ LinkChild \/ GradeChildSC \/ GradeParentSC

SpecCascade == InitSC /\ [][NextCascade]_vars

\* Every claim with atomic children holds their rollup.
ParentsRolledUp(cl) == \A p \in DOMAIN cl : AtomicChildren(cl, p) # {} => RolledUp(cl, p)

RollupKeys == {"factscore", "atomic_count", "supported_count"}

\* The metadata keys the operation named op writes on the claim it is
\* called on.
OwnedKeys(op) ==
    IF op = "grade_claim_sc" THEN {"self_consistency"}
    ELSE IF op = "verify_claim" THEN {"verification"}
    ELSE {}

AddVerifiedClaim ==
    \E text \in {TSimple, TTwo} :
        /\ claims = <<>>
        /\ add_claim(text, "e1", <<>>)

DecomposeVerifiedClaim == \E c \in DOMAIN claims : decompose_claim(c, "auto")

VerifyClaim ==
    \E c \in DOMAIN claims, search \in SearchChoices :
        /\ claims[c].parent_claim_id = 0
        /\ verify_claim(c, search, 1)

GradeVerifiedSC ==
    \E c \in DOMAIN claims :
        /\ SCGraded \subseteq {c}
        /\ \E draws \in [1..1 -> DrawChoices] : grade_claim_sc(c, 1, draws)

NextVerify ==
    AddVerifiedClaim \/ DecomposeVerifiedClaim \/ VerifyClaim \/ GradeVerifiedSC

SpecVerify == InitSources /\ [][NextVerify]_vars

\* The rollup keys of p hold what the rollup of its children, as they stand
\* in cl, writes.
RollupKeysCurrent(cl, p) ==
    LET r == Rollup(cl, AtomicChildren(cl, p))
    IN /\ RollupKeys \subseteq DOMAIN cl[p].metadata
       /\ cl[p].metadata.factscore = r.factscore
       /\ cl[p].metadata.atomic_count = r.atomic_count
       /\ cl[p].metadata.supported_count = r.supported_count

\* C25: no operation removes a metadata key; an operation changes, besides
\* the keys it owns on the claim it is called on, only the rollup keys of a
\* composite, and those hold the rollup of the children's current grades
\* (the value the last rollup wrote) after every operation.
C25_AdditiveMerge ==
    [][\A p \in DOMAIN claims :
          /\ DOMAIN claims[p].metadata \subseteq DOMAIN claims'[p].metadata
          /\ \A k \in DOMAIN claims[p].metadata \ RollupKeys :
                (k \notin OwnedKeys(ret'.op) \/ ret'.claim_id # p)
                    => claims'[p].metadata[k] = claims[p].metadata[k]
          /\ AtomicChildren(claims', p) # {} => RollupKeysCurrent(claims', p)]_vars

(***************************************************************************)
(* Statement-level model of add_claim_source and decompose_claim.  Every   *)
(* group of writes of the code ends in conn.commit(), and a SELECT opens   *)
(* no transaction, so sources, claims and claim_sources hold what is       *)
(* committed, which any other connection reads, and each step below is one *)
(* SELECT or one committed group of writes.  calls[k] is caller k's        *)
(* position (pc) and local variables; a caller outside DOMAIN calls has no *)
(* call in progress.                                                       *)
(***************************************************************************)

Put(f, k, rec) == [j \in DOMAIN f \cup {k} |-> IF j = k THEN rec ELSE f[j]]
Drop(f, k) == [j \in DOMAIN f \ {k} |-> f[j]]
Busy(k) == k \in DOMAIN calls

\* The locals of a call that is about to run _grade_claim(claim_id); todo
\* and root are decompose_claim's atomic ids still to grade and its claim.
Call(op, claim_id, todo, root, val) ==
    [op |-> op, pc |-> "grade", claim_id |-> claim_id, todo |-> todo, root |-> root,
     val |-> val, final |-> FALSE, g |-> <<>>, target |-> 0, r |-> <<>>, meta |-> <<>>]

\* Where a call goes when a _grade_claim has finished: decompose_claim
\* grades the next atomic id and, after the last, rolls up its own claim;
\* add_claim_source returns.
AfterGrade(rec) ==
    IF rec.op = "decompose_claim"
    THEN IF rec.todo # <<>>
         THEN [rec EXCEPT !.pc = "grade", !.claim_id = Head(rec.todo),
                          !.todo = Tail(rec.todo)]
         ELSE [rec EXCEPT !.pc = "rollup", !.target = rec.root, !.final = TRUE]
    ELSE [rec EXCEPT !.pc = "return"]

\* Where a call goes when a _grade_composite_claim has finished.
AfterRollup(rec) == IF rec.final THEN [rec EXCEPT !.pc = "return"] ELSE AfterGrade(rec)

\* The caller goes on with the locals next, or returns.
Proceed(k, next) ==
    IF next.pc = "return"
    THEN /\ calls' = Drop(calls, k)
         /\ ret' = [op |-> next.op, caller |-> k, val |-> next.val]
    ELSE /\ calls' = Put(calls, k, next)
         /\ UNCHANGED ret

\* add_claim_source, INSERT and commit; IntegrityError returns False.
InsertLink(k, claim_id, source_id, relationship) ==
    /\ ~Busy(k)
    /\ IF CanLink(claims, claim_sources, sources, claim_id, source_id)
       THEN /\ claim_sources' = claim_sources \cup {Link(claim_id, source_id, relationship)}
            /\ calls' = Put(calls, k, Call("add_claim_source", claim_id, <<>>, 0, TRUE))
            /\ UNCHANGED ret
       ELSE /\ UNCHANGED <<claim_sources, calls>>
            /\ ret' = [op |-> "add_claim_source", caller |-> k, val |-> FALSE]
    /\ UNCHANGED <<sources, claims>>
    /\ UNCHANGED evalVars
    /\ UNCHANGED graphVars

\* _grade_claim, the SELECT of the claim's links and the grade from them.
ReadLinks(k) ==
    /\ Busy(k)
    /\ calls[k].pc = "grade"
    /\ LET links == LinksOf(claim_sources, calls[k].claim_id)
           sup == {l \in links : l.relationship \in {"supports", "confirms"}}
           con == {l \in links : l.relationship \in {"contradicts", "refutes"}}
           g == BaseGrade([l \in sup |-> sources[l.source_id].credibility],
                          Cardinality(con))
       IN calls' = Put(calls, k, [calls[k] EXCEPT !.g = g, !.pc = "write_grade"])
    /\ UNCHANGED <<sources, claims, claim_sources, ret>>
    /\ UNCHANGED evalVars
    /\ UNCHANGED graphVars

\* _grade_claim, the UPDATE of the claim and commit, and the SELECT of its
\* parent_claim_id, which no statement changes.
WriteGrade(k) ==
    /\ Busy(k)
    /\ calls[k].pc = "write_grade"
    /\ LET rec == calls[k]
           c == rec.claim_id
       IN /\ claims' = [claims EXCEPT ![c] =
                           [@ EXCEPT !.evidence_grade = rec.g.grade,
                                     !.confidence = rec.g.confidence]]
          /\ Proceed(k, IF claims[c].parent_claim_id # 0
                        THEN [rec EXCEPT !.pc = "rollup",
                                         !.target = claims[c].parent_claim_id]
                        ELSE AfterGrade(rec))
    /\ UNCHANGED <<sources, claim_sources>>
    /\ UNCHANGED evalVars
    /\ UNCHANGED graphVars

\* _grade_composite_claim, the SELECT of the children and the rollup of what
\* it returns.
ReadChildren(k) ==
    /\ Busy(k)
    /\ calls[k].pc = "rollup"
    /\ LET rec == calls[k]
           children == AtomicChildren(claims, rec.target)
       IN IF children = {}
          THEN Proceed(k, AfterRollup(rec))
          ELSE /\ calls' = Put(calls, k, [rec EXCEPT !.r = Rollup(claims, children),
                                                     !.pc = "read_meta"])
               /\ UNCHANGED ret
    /\ UNCHANGED <<sources, claims, claim_sources>>
    /\ UNCHANGED evalVars
    /\ UNCHANGED graphVars

\* _grade_composite_claim, the SELECT of the claim's metadata.
ReadMeta(k) ==
    /\ Busy(k)
    /\ calls[k].pc = "read_meta"
    /\ calls' = Put(calls, k, [calls[k] EXCEPT !.meta = claims[calls[k].target].metadata,
                                               !.pc = "write_rollup"])
    /\ UNCHANGED <<sources, claims, claim_sources, ret>>
    /\ UNCHANGED evalVars
    /\ UNCHANGED graphVars

\* A plausible slip: the UPDATE sets the grade and the metadata and leaves
\* the confidence.
RollupRowKeepsConfidence(row, r, meta) ==
    [row EXCEPT !.evidence_grade = r.grade,
                !.metadata = DictUpdate(meta,
                    [factscore |-> r.factscore, atomic_count |-> r.atomic_count,
                     supported_count |-> r.supported_count])]

\* The row _grade_composite_claim's UPDATE leaves, from the rollup r and the
\* metadata meta it has read.
RollupRow(row, r, meta) ==
    [row EXCEPT !.evidence_grade = r.grade,
                !.confidence = r.confidence,
                !.metadata = DictUpdate(meta,
                    [factscore |-> r.factscore, atomic_count |-> r.atomic_count,
                     supported_count |-> r.supported_count])]

\* _grade_composite_claim, the UPDATE of the claim and commit.
WriteRollup(k) ==
    /\ Busy(k)
    /\ calls[k].pc = "write_rollup"
    /\ LET rec == calls[k]
       IN /\ claims' = [claims EXCEPT ![rec.target] = RollupRow(@, rec.r, rec.meta)]
          /\ Proceed(k, AfterRollup(rec))
    /\ UNCHANGED <<sources, claim_sources>>
    /\ UNCHANGED evalVars
    /\ UNCHANGED graphVars

\* decompose_claim up to its commit: the claim is marked composite, the
\* atomic children are inserted and the claim's links are copied to them.
\* The calls that make no children return at once.
InsertAtoms(k, claim_id, method) ==
    /\ ~Busy(k)
    /\ IF claim_id \notin DOMAIN claims
       THEN /\ UNCHANGED <<claims, claim_sources, calls>>
            /\ ret' = [op |-> "decompose_claim", caller |-> k, val |-> <<>>]
       ELSE IF ExistingAtoms(claims, claim_id) # {}
       THEN /\ UNCHANGED <<claims, claim_sources, calls>>
            /\ ret' = [op |-> "decompose_claim", caller |-> k,
                       val |-> IdSeq(ExistingAtoms(claims, claim_id))]
       ELSE IF DecomposeOutcome(claims[claim_id].claim_text, method) = "singleton"
       THEN /\ claims' = [claims EXCEPT ![claim_id].claim_type = "singleton"]
            /\ UNCHANGED <<claim_sources, calls>>
            /\ ret' = [op |-> "decompose_claim", caller |-> k, val |-> <<>>]
       ELSE LET parts == _heuristic_decompose(claims[claim_id].claim_text)
                marked == [claims EXCEPT ![claim_id].claim_type = "composite"]
                parent_sources == SetToSeq(LinksOf(claim_sources, claim_id))
                atomic_ids == [i \in DOMAIN parts |-> Len(claims) + i]
                inserted == marked \o AtomicRows(claims[claim_id], claim_id, parts)
            IN /\ claims' = inserted
               /\ claim_sources' = CopyLinks(inserted, claim_sources, sources,
                                             atomic_ids, parent_sources)
               /\ calls' = Put(calls, k, Call("decompose_claim", Head(atomic_ids),
                                              Tail(atomic_ids), claim_id, atomic_ids))
               /\ UNCHANGED ret
    /\ UNCHANGED sources
    /\ UNCHANGED evalVars
    /\ UNCHANGED graphVars

\* The process of caller k stops (is killed, loses power) during a call.
Stop(k) ==
    /\ Busy(k)
    /\ calls' = Drop(calls, k)
    /\ ret' = [op |-> "stopped", caller |-> k]
    /\ UNCHANGED <<sources, claims, claim_sources>>
    /\ UNCHANGED evalVars
    /\ UNCHANGED graphVars

(***************************************************************************)
(* One caller decomposes a claim and links sources to its atomic children, *)
(* statement by statement, and may stop during a call.                     *)
(***************************************************************************)

AddTxnClaim ==
    \E ids \in {<<>>, <<1>>} :
        /\ claims = <<>>
        /\ DOMAIN calls = {}
        /\ add_claim(TTwo, "e1", ids)

TxnDecompose == \E c \in DOMAIN claims : InsertAtoms("a", c, "auto")

TxnLink ==
    \E c \in Children(claims), s \in SourceIdChoices : InsertLink("a", c, s, "supports")

TxnReadLinks == ReadLinks("a")
TxnWriteGrade == WriteGrade("a")
TxnReadChildren == ReadChildren("a")
TxnReadMeta == ReadMeta("a")
TxnWriteRollup == WriteRollup("a")
TxnStop == Stop("a")

NextTxn ==
    \/ AddTxnClaim
    \/ TxnDecompose
    \/ TxnLink
    \/ TxnReadLinks
    \/ TxnWriteGrade
    \/ TxnReadChildren
    \/ TxnReadMeta
    \/ TxnWriteRollup
    \/ TxnStop

SpecTxn == InitSC /\ [][NextTxn]_vars

\* The row of c holds the grade and confidence _grade_claim derives from the
\* links of c.
GradedFromLinks(cl, cs, src, c) ==
    LET links == LinksOf(cs, c)
        sup == {l \in links : l.relationship \in {"supports", "confirms"}}
        con == {l \in links : l.relationship \in {"contradicts", "refutes"}}
        g == BaseGrade([l \in sup |-> src[l.source_id].credibility], Cardinality(con))
    IN cl[c].evidence_grade = g.grade /\ cl[c].confidence = g.confidence

\* C26: in every committed state, whether a call is in progress, has
\* returned or was stopped, the derived writes are all there: every atomic
\* child of a composite is graded from its links and the composite holds
\* the rollup of its children.
C26_AtomicTransactions ==
    \A p \in DOMAIN claims :
        AtomicChildren(claims, p) # {}
            => /\ \A c \in AtomicChildren(claims, p) :
                     GradedFromLinks(claims, claim_sources, sources, c)
               /\ RolledUp(claims, p)

(***************************************************************************)
(* Two callers, each on its own connection and with nothing serializing    *)
(* them, link sources to the atomic children of one composite; their       *)
(* statements interleave in any order.                                     *)
(***************************************************************************)

Callers == {"a", "b"}

AddWritersClaim ==
    \E ids \in {<<>>, <<1>>} :
        /\ claims = <<>>
        /\ add_claim(TTwo, "e1", ids)

DecomposeWritersClaim ==
    \E c \in DOMAIN claims :
        /\ DOMAIN calls = {}
        /\ AtomicChildren(claims, c) = {}
        /\ claims[c].parent_claim_id = 0
        /\ decompose_claim(c, "auto")

WritersLink ==
    \E k \in Callers, c \in Children(claims), s \in SourceIdChoices :
        InsertLink(k, c, s, "supports")

WritersReadLinks == \E k \in Callers : ReadLinks(k)
WritersWriteGrade == \E k \in Callers : WriteGrade(k)
WritersReadChildren == \E k \in Callers : ReadChildren(k)
WritersReadMeta == \E k \in Callers : ReadMeta(k)
WritersWriteRollup == \E k \in Callers : WriteRollup(k)

NextWriters ==
    \/ AddWritersClaim
    \/ DecomposeWritersClaim
    \/ WritersLink
    \/ WritersReadLinks
    \/ WritersWriteGrade
    \/ WritersReadChildren
    \/ WritersReadMeta
    \/ WritersWriteRollup

SpecWriters == InitSC /\ [][NextWriters]_vars

\* C27: a rollup's UPDATE leaves the composite different from the rollup of
\* its children's current grades only when the writer's SELECT of the
\* children is stale, i.e. another caller has changed a child since.
C27_OnlyStaleWritesLoseUpdates ==
    [][\A k \in Callers :
          (/\ Busy(k)
           /\ calls[k].pc = "write_rollup"
           /\ (k \notin DOMAIN calls' \/ calls'[k].pc # "write_rollup")
           /\ ~RolledUp(claims', calls[k].target))
              => calls[k].r # Rollup(claims, AtomicChildren(claims, calls[k].target))]_vars

\* C27 witness: both callers have returned from add_claim_source on two
\* sibling children; both children are graded 'moderate' from their links,
\* and the composite holds the grade 'weak' and supported_count 1 of a
\* rollup that saw only one of them.
C27_LostUpdate ==
    /\ DOMAIN calls = {}
    /\ ret.op = "add_claim_source"
    /\ ret.val
    /\ \E p \in DOMAIN claims :
          /\ AtomicChildren(claims, p) = {2, 3}
          /\ \A c \in {2, 3} :
                /\ GradedFromLinks(claims, claim_sources, sources, c)
                /\ claims[c].evidence_grade = "moderate"
          /\ claims[p].evidence_grade = "weak"
          /\ claims[p].metadata.supported_count = 1
          /\ Rollup(claims, {2, 3}).grade = "strong"
          /\ Rollup(claims, {2, 3}).supported_count = 2

(***************************************************************************)
(* The evaluation loop of a driver: it creates an evaluation and then, in  *)
(* each round, calls update_evaluation with the iteration increased by one *)
(* and check_convergence, until check_convergence returns converged; it    *)
(* may check before the first round and may record gaps, with no iteration *)
(* argument, between rounds.  ret, the last call, is the driver's          *)
(* position; no guard bounds the number of rounds.                         *)
(***************************************************************************)

MaxDriverIterations == 4

DriverStart ==
    \E m \in 1..MaxDriverIterations, c \in CriteriaChoices :
        /\ evaluations = <<>>
        /\ add_evaluation("e1", m, c)

\* The driver goes on to a round: it has not been told to stop.
DriverGoesOn ==
    \/ ret.op = "add_evaluation"
    \/ ret.op = "check_convergence" /\ ~ret.val.converged

DriverUpdate ==
    \E confidence \in ConfidenceChoices, gaps \in GapsChoices,
       contradictions \in ContradictionsChoices :
        /\ DriverGoesOn
        /\ update_evaluation(1, Some(confidence), Some(gaps), Some(contradictions),
                             None, Some(evaluations[1].iteration + 1), None)

DriverRecord ==
    \E gaps \in GapsChoices :
        /\ DriverGoesOn
        /\ update_evaluation(1, None, Some(gaps), None, None, None, None)

DriverCheck ==
    /\ ret.op \in {"add_evaluation", "update_evaluation"}
    /\ check_convergence(1)

NextDriver == DriverStart \/ DriverUpdate \/ DriverRecord \/ DriverCheck

SpecDriver == Init /\ [][NextDriver]_vars

\* The rounds the driver has completed: each sets the iteration one higher,
\* from 1.
Rounds(ev) == ev.iteration - 1

\* C28: a check_convergence after max_iterations - 1 rounds or more returns
\* converged = TRUE whatever confidence, gaps and contradictions the rounds
\* supplied, so the driver never starts a round beyond max_iterations - 1
\* (beyond the first, when max_iterations is 1); and an update_evaluation
\* without an iteration argument leaves the iteration as it is.
C28_BoundedTermination ==
    [][/\ (ret'.op = "check_convergence" /\ evaluations # <<>>
              /\ Rounds(evaluations[1]) >= evaluations[1].max_iterations - 1)
            => ret'.val.converged
       /\ evaluations' # <<>>
            => \/ Rounds(evaluations'[1]) <= evaluations'[1].max_iterations - 1
               \/ Rounds(evaluations'[1]) <= 1
       /\ \A gaps \in GapsChoices :
             (evaluations # <<>>
                 /\ update_evaluation(1, None, Some(gaps), None, None, None, None))
               => evaluations'[1].iteration = evaluations[1].iteration]_vars

\* C28 witness: with max_iterations 4 the driver has run three rounds and
\* the check of the third returns converged by the hard stop.
C28_Witness ==
    /\ ret.op = "check_convergence"
    /\ ret.val.converged
    /\ ret.val.reason = "max_iterations_reached"
    /\ evaluations[1].max_iterations = 4
    /\ Rounds(evaluations[1]) = 3
    /\ Len(evaluations[1].confidence_history) = 3

(***************************************************************************)
(* The queries of the evaluation loop among its writers: one evaluation is *)
(* created, updated in every field, has gap topics registered, and is      *)
(* queried by check_convergence and select_next_gaps.                      *)
(***************************************************************************)

QueriesAdd ==
    \E c \in CriteriaChoices :
        /\ evaluations = <<>>
        /\ add_evaluation("e1", 2, c)

QueriesUpdate ==
    \E confidence \in Opt(GapConfidenceChoices), gaps \in Opt(GapListChoices),
       contradictions \in Opt(ContradictionsChoices), status \in Opt(StatusChoices),
       iteration \in Opt(IterationChoices) :
        /\ evaluations # <<>>
        /\ ~IsNone(confidence) => Len(evaluations[1].confidence_history) < MaxHistory
        /\ update_evaluation(1, confidence, gaps, contradictions, status, iteration, None)

QueriesRegister ==
    /\ evaluations # <<>>
    /\ register_gap_topics(1, <<"a">>)

QueriesCheck == check_convergence(1)

QueriesSelect ==
    /\ evaluations # <<>>
    /\ \E n \in SelectNChoices,
          draws \in [1..Len(Candidates(evaluations[1])) -> ScoreChoices] :
           select_next_gaps(1, n, draws)

NextQueries ==
    QueriesAdd \/ QueriesUpdate \/ QueriesRegister \/ QueriesCheck \/ QueriesSelect

SpecQueries == Init /\ [][NextQueries]_vars

\* C29: check_convergence and select_next_gaps leave every row of every
\* table as it is, and the status of an evaluation changes only in a call
\* of update_evaluation.
C29_QueriesReadOnly ==
    [][/\ ret'.op \in {"check_convergence", "select_next_gaps"}
            => /\ evaluations' = evaluations
               /\ <<sources, claims, claim_sources>>' = <<sources, claims, claim_sources>>
       /\ \A id \in DOMAIN evaluations :
             evaluations'[id].status # evaluations[id].status
                => ret'.op = "update_evaluation"]_vars

\* C29 witness: check_convergence has returned converged = TRUE for an
\* evaluation that meets its criteria, and the status is still 'evaluating'.
C29_Witness ==
    /\ ret.op = "check_convergence"
    /\ ret.val.converged
    /\ ret.val.reason = "all criteria met"
    /\ evaluations[1].status = "evaluating"
    /\ evaluations[1].gap_thompson_params # <<>>

(***************************************************************************)
(* Spawn budget (kb_spawn).  Entity ids are the row numbers of entities    *)
(* (the code draws a fresh uuid for each).  A SELECT without ORDER BY      *)
(* returns its rows in no defined order, so the parent the upward walk     *)
(* follows, parents[0], is any of the parents.                             *)
(***************************************************************************)

TreeLinkTypes == {"child", "wave", "spawned"}

ParentsOf(lk, e) ==
    {l.from_id : l \in {m \in lk : m.to_id = e /\ m.link_type \in TreeLinkTypes}}

SpawnChildrenOf(lk, e) ==
    {l.to_id : l \in {m \in lk : m.from_id = e /\ m.link_type \in TreeLinkTypes}}

\* check_spawn_budget's walk up the parent links from current: the depths and
\* roots it can end with.  It stops at an entity without parents and at one
\* whose parent has been visited.
RECURSIVE WalkUp(_, _, _, _)
WalkUp(lk, current, visited, depth) ==
    IF ParentsOf(lk, current) = {} THEN {[depth |-> depth, root |-> current]}
    ELSE UNION {IF parent_id \in visited
                THEN {[depth |-> depth, root |-> current]}
                ELSE WalkUp(lk, parent_id, visited \cup {parent_id}, depth + 1) :
                    parent_id \in ParentsOf(lk, current)}

\* _count_tree's loop: breadth first, each entity counted when first seen.
RECURSIVE CountLoop(_, _, _, _)
CountLoop(lk, queue, visited, count) ==
    IF queue = <<>> THEN count
    ELSE LET new == SpawnChildrenOf(lk, Head(queue)) \ visited
         IN CountLoop(lk, Tail(queue) \o IdSeq(new), visited \cup new,
                      count + Cardinality(new))

_count_tree(lk, root_id) == CountLoop(lk, <<root_id>>, {root_id}, 1)

\* A plausible slip: the tree may grow while it holds max_total or fewer.
CanSpawnInclusive(depth, total, max_depth, max_total) ==
    depth < max_depth /\ total <= max_total

CanSpawn(depth, total, max_depth, max_total) ==
    depth < max_depth /\ total < max_total

\* The results check_spawn_budget can return (without the reason text).
Budgets(lk, entity_id, max_depth, max_total) ==
    {LET total == _count_tree(lk, w.root)
     IN [can_spawn |-> CanSpawn(w.depth, total, max_depth, max_total),
         current_depth |-> w.depth,
         max_depth |-> max_depth,
         remaining_depth |-> Max0(max_depth - w.depth),
         total_in_tree |-> total,
         max_total |-> max_total,
         remaining_budget |-> Max0(max_total - total),
         root_id |-> w.root] :
        w \in WalkUp(lk, entity_id, {entity_id}, 0)}

check_spawn_budget(entity_id, max_depth, max_total) ==
    /\ \E budget \in Budgets(entity_links, entity_id, max_depth, max_total) :
          ret' = [op |-> "check_spawn_budget", entity_id |-> entity_id, val |-> budget]
    /\ UNCHANGED graphVars
    /\ UNCHANGED evalVars
    /\ UNCHANGED claimVars
    /\ UNCHANGED callVars

add_entity(title, content, metadata) ==
    /\ entities' = Append(entities,
                          [title |-> title, content |-> content, metadata |-> metadata])
    /\ ret' = [op |-> "add_entity", val |-> Len(entities) + 1]
    /\ UNCHANGED <<entity_links, traces>>
    /\ UNCHANGED evalVars
    /\ UNCHANGED claimVars
    /\ UNCHANGED callVars

\* add_link: the foreign keys and UNIQUE(from_id, to_id, link_type) make the
\* INSERT raise IntegrityError, which returns None; otherwise the new row id.
add_link(from_id, to_id, link_type) ==
    LET row == [from_id |-> from_id, to_id |-> to_id, link_type |-> link_type]
    IN /\ IF from_id \in DOMAIN entities /\ to_id \in DOMAIN entities
             /\ row \notin entity_links
          THEN /\ entity_links' = entity_links \cup {row}
               /\ ret' = [op |-> "add_link", val |-> Some(Cardinality(entity_links) + 1)]
          ELSE /\ UNCHANGED entity_links
               /\ ret' = [op |-> "add_link", val |-> None]
       /\ UNCHANGED <<entities, traces>>
       /\ UNCHANGED evalVars
       /\ UNCHANGED claimVars
       /\ UNCHANGED callVars

\* add_trace's step_num: one more than the highest of the entity.
StepNum(tr, entity_id) ==
    Cardinality({i \in DOMAIN tr : tr[i].entity_id = entity_id}) + 1

\* record_spawn.  With a parent that is no entity the new entity is inserted,
\* add_link swallows the foreign key error and add_trace raises it.
record_spawn(parent_id, title, agent_type, max_depth, max_total) ==
    /\ \E budget \in Budgets(entity_links, parent_id, max_depth, max_total) :
          IF ~budget.can_spawn
          THEN /\ ret' = [op |-> "record_spawn", parent_id |-> parent_id,
                          val |-> [spawned |-> FALSE, budget |-> budget]]
               /\ UNCHANGED graphVars
          ELSE LET entity_id == Len(entities) + 1
                   meta == [assigned_agent |-> agent_type,
                            depth |-> budget.current_depth + 1,
                            parent_id |-> parent_id,
                            root_id |-> budget.root_id]
               IN /\ entities' = Append(entities,
                          [title |-> title, content |-> "", metadata |-> meta])
                  /\ IF parent_id \in DOMAIN entities
                     THEN /\ entity_links' = entity_links \cup
                                 {[from_id |-> parent_id, to_id |-> entity_id,
                                   link_type |-> "spawned"]}
                          /\ traces' = Append(traces,
                                 [entity_id |-> parent_id,
                                  step_num |-> StepNum(traces, parent_id),
                                  action |-> "spawn",
                                  depth |-> meta.depth,
                                  tree_size |-> budget.total_in_tree + 1])
                          /\ ret' = [op |-> "record_spawn", parent_id |-> parent_id,
                                     val |-> [spawned |-> TRUE,
                                              entity_id |-> entity_id,
                                              depth |-> meta.depth,
                                              budget |->
                                                [remaining_depth |-> budget.remaining_depth - 1,
                                                 remaining_budget |-> budget.remaining_budget - 1,
                                                 root_id |-> budget.root_id]]]
                     ELSE /\ UNCHANGED <<entity_links, traces>>
                          /\ ret' = [op |-> "record_spawn", parent_id |-> parent_id,
                                     raised |-> "IntegrityError"]
    /\ UNCHANGED evalVars
    /\ UNCHANGED claimVars
    /\ UNCHANGED callVars

(***************************************************************************)
(* A root entity, sub-agents recorded under any entity with one max_depth  *)
(* and one max_total, budget checks, and 'child' links added between any   *)
(* two entities, which can close a cycle.                                  *)
(***************************************************************************)

SpawnMaxDepth == 2
SpawnMaxTotal == 4
MaxExtraLinks == 1
LinkTargets == {1, 2}

AddRootEntity ==
    /\ entities = <<>>
    /\ add_entity("root", "", <<>>)

RecordSpawn ==
    \E parent_id \in DOMAIN entities :
        /\ Len(entities) <= SpawnMaxTotal
        /\ record_spawn(parent_id, "t", "researcher", SpawnMaxDepth, SpawnMaxTotal)

CheckSpawnBudget ==
    \E entity_id \in DOMAIN entities :
        check_spawn_budget(entity_id, SpawnMaxDepth, SpawnMaxTotal)

\* add_link(from_id, to_id, 'child') by a caller: a link into the root or into
\* the first spawned entity closes a cycle or gives an entity a second parent.
AddChildLink ==
    \E from_id \in DOMAIN entities, to_id \in DOMAIN entities \cap LinkTargets :
        /\ Cardinality({l \in entity_links : l.link_type = "child"}) < MaxExtraLinks
        /\ add_link(from_id, to_id, "child")

NextSpawn == AddRootEntity \/ RecordSpawn \/ CheckSpawnBudget \/ AddChildLink

SpecSpawn == Init /\ [][NextSpawn]_vars

\* Every link was made by record_spawn.
OnlySpawned(lk) == \A l \in lk : l.link_type = "spawned"

\* The depth of e in a tree of 'spawned' links: the length of the chain of
\* parents up to the root.
RECURSIVE DepthOf(_, _)
DepthOf(lk, e) ==
    IF \E l \in lk : l.to_id = e
    THEN 1 + DepthOf(lk, (CHOOSE l \in lk : l.to_id = e).from_id)
    ELSE 0

\* C30: while every link was made by record_spawn, a record_spawn under a
\* parent of depth < max_depth in a tree of size < max_total adds one entity
\* and the 'spawned' link to it, and any other record_spawn returns
\* spawned = FALSE and leaves entities, links and traces as they are; the
\* tree holds at most max_total entities, none deeper than max_depth.  Every
\* check_spawn_budget, in a graph with a cycle too, ends with a depth and a
\* tree size within the number of entities.
C30_SpawnBudget ==
    [][/\ (ret'.op = "record_spawn" /\ OnlySpawned(entity_links))
            => IF /\ DepthOf(entity_links, ret'.parent_id) < SpawnMaxDepth
                  /\ Len(entities) < SpawnMaxTotal
               THEN /\ ret'.val.spawned
                    /\ Len(entities') = Len(entities) + 1
                    /\ entity_links' = entity_links \cup
                           {[from_id |-> ret'.parent_id, to_id |-> Len(entities) + 1,
                             link_type |-> "spawned"]}
               ELSE /\ ~ret'.val.spawned
                    /\ <<entities, entity_links, traces>>' =
                           <<entities, entity_links, traces>>
       /\ OnlySpawned(entity_links')
            => /\ Len(entities') <= SpawnMaxTotal
               /\ \A e \in DOMAIN entities' : DepthOf(entity_links', e) <= SpawnMaxDepth
       /\ ret'.op = "check_spawn_budget"
            => /\ ret'.val.current_depth < Len(entities)
               /\ ret'.val.total_in_tree \in 1..Len(entities)]_vars

\* C30 witness: the tree holds max_total entities, one of them at depth
\* max_depth, all by record_spawn, and the last record_spawn was refused.
C30_Witness ==
    /\ ret.op = "record_spawn"
    /\ ~ret.val.spawned
    /\ OnlySpawned(entity_links)
    /\ Len(entities) = SpawnMaxTotal
    /\ Len(traces) = SpawnMaxTotal - 1
    /\ \E e \in DOMAIN entities : DepthOf(entity_links, e) = SpawnMaxDepth

\* e and its ancestors in a tree of 'spawned' links.
RECURSIVE AncestorsOf(_, _)
AncestorsOf(lk, e) ==
    IF \E l \in lk : l.to_id = e
    THEN {e} \cup AncestorsOf(lk, (CHOOSE l \in lk : l.to_id = e).from_id)
    ELSE {e}

\* A budget check has ended on a graph with a cycle: a 'child' link leads
\* from an entity to itself or to one of its ancestors.
C30_CycleChecked ==
    /\ ret.op = "check_spawn_budget"
    /\ \E l \in entity_links :
          /\ l.link_type = "child"
          /\ l.to_id \in AncestorsOf(entity_links \ {l}, l.from_id)

\* A record_spawn was refused for the depth alone.
C30_DepthRefused ==
    /\ ret.op = "record_spawn"
    /\ ~ret.val.spawned
    /\ OnlySpawned(entity_links)
    /\ Len(entities) < SpawnMaxTotal

====
